---- MODULE Spec2Model ----
(***************************************************************************)
(* A model of CleanCrush (rnveer17/clean_crush): the protection oracle of  *)
(* config.rs, the scanner of scanner.rs and the archive store / archive    *)
(* lifecycle of archive.rs.                                                *)
(*                                                                         *)
(* Paths are sequences of components (Path::starts_with is component-wise).*)
(* A file name is a record [base, sfx, ext]: the stem is base followed by  *)
(* one "_k" per element of sfx, so "report_1.docx" is                      *)
(* [base |-> "report", sfx |-> <<1>>, ext |-> "docx"].                     *)
(* Option<T> is a sequence: <<>> is None and <<x>> is Some(x).             *)
(* Four specifications share the variables: SpecProtect (is_protected),    *)
(* SpecScan (Scanner::scan), Spec (ArchiveSystem::clean_files) and         *)
(* SpecLifecycle (check_archive_reminders, clean_old_archives).            *)
(***************************************************************************)
EXTENDS Integers, Sequences, FiniteSets, TLC

VARIABLES
    protected_folders,  \* Config.protected_folders: Seq of ProtectedFolder
    lookup,             \* the last is_protected call: <<>> or <<[path, result]>>
    tree,               \* the scanned tree: file -> its content, or Absent
    scan_in,            \* the arguments and the environment of the Scanner::scan call
    scan_out,           \* <<>> until Scanner::scan returns, then <<its result>>
    score_in,           \* the arguments of a calculate_confidence / categorize_file call
    score_out,          \* <<>> until the call returns, then <<its result>>
    calls,              \* the number of clean_files calls made so far
    today,              \* the calendar day of Utc::now(), as a day number
    place,              \* source file -> "orig" | "trash" | "archive": where it is now
    snaps,              \* day -> the snapshot directory <archive_path>/<day>
    pc,                 \* "idle", or the clean_files loop that runs: "recycle" | "archive"
    queue,              \* the files argument of the running clean_files call
    pos,                \* the index in queue of the file the loop handles next
    result,             \* the CleanupResult of the running / last clean_files call
    archive_info,       \* the ArchiveInfo.files that clean_to_archive has built so far
    batch_day,          \* the day clean_to_archive computed archive_dir from
    prompts,            \* the decision-oracle calls of the running / last call, in order
    done,               \* what the loop did to each file it handled, in order
    last_call,          \* the arguments and the outcome of the last clean_files call
    exam_manager        \* the ExamManager of the running command and the exam_tracking it loads and saves

protectVars == <<lookup>>
scanVars == <<tree, scan_in, scan_out, score_in, score_out>>
fsVars == <<place, snaps>>
batchVars == <<pc, queue, pos, result, archive_info, batch_day, prompts, done, last_call>>
archiveVars == <<calls, today, place, snaps, pc, queue, pos, result, archive_info, batch_day,
                 prompts, done, last_call>>
vars == <<protected_folders, lookup, tree, scan_in, scan_out, score_in, score_out, calls, today, place, snaps, pc,
          queue, pos, result, archive_info, batch_day, prompts, done, last_call,
          exam_manager>>

None == <<>>
Some(x) == <<x>>

----------------------------------------------------------------------------
(* config.rs: the protection oracle *)

\* Path::starts_with: base is a component-wise prefix of path
starts_with(path, base) ==
    /\ Len(base) <= Len(path)
    /\ \A i \in 1..Len(base) : path[i] = base[i]

RECURSIVE first_match(_, _, _)
first_match(folders, path, i) ==
    IF i > Len(folders) THEN None
    ELSE IF starts_with(path, folders[i].path) THEN Some(folders[i])
    ELSE first_match(folders, path, i + 1)

\* Config::is_protected: the first entry of the list the path starts with
is_protected(folders, path) == first_match(folders, path, 1)

\* the components that begin with a name of SYSTEM_PATHS once lower-cased
\* ("/lib" is a substring of "/home/u/library/a.pdf")
SystemComponents == {"usr", "bin", "sbin", "etc", "var", "lib", "system", "library"}

\* Config::is_system_path: the lower-cased path string contains a deny-listed
\* name; a component matches when it begins with one
is_system_path(path) == \E i \in 1..Len(path) : path[i] \in SystemComponents

Hard == "Hard"
Soft == "Soft"
ProtectionType == {Hard, Soft}

ProtectedFolder(p, t) == [path |-> p, protection_type |-> t]

----------------------------------------------------------------------------
(* The file tree of the model *)

DocsDir == <<"home", "docs">>
PrivateDir == <<"home", "docs", "private">>
PicsDir == <<"home", "pics">>
DownloadsDir == <<"home", "dl">>

\* the folders a protection entry may name
ProtectablePaths == {DocsDir, PrivateDir, PicsDir}

\* the paths is_protected is asked about
QueryPaths == {DocsDir \o <<"a.pdf">>, PrivateDir \o <<"a.pdf">>,
               PicsDir \o <<"a.pdf">>, DownloadsDir \o <<"a.pdf">>}

\* the longest protected-folder list of the model
MaxProtected == 2

ProtectedEntries == {ProtectedFolder(p, t) : p \in ProtectablePaths, t \in ProtectionType}

ProtectedLists == UNION {[1..n -> ProtectedEntries] : n \in 0..MaxProtected}

----------------------------------------------------------------------------
(* scanner.rs: the scanner *)

\* the files a scanned tree may hold, in the order the directory walk yields
\* them; words are the patterns of the scanner's tables that occur in the
\* lower-cased file name
ScanFile(i) ==
    CASE i = 1 -> [dir |-> DownloadsDir, file |-> "notes.pdf", words |-> {"notes"},
                   ext |-> "pdf", days_old |-> 10]
      [] i = 2 -> [dir |-> DownloadsDir, file |-> "notes_copy.pdf",
                   words |-> {"notes", "copy", "_copy"}, ext |-> "pdf", days_old |-> 10]
      [] i = 3 -> [dir |-> PrivateDir, file |-> "lecture_03.pdf", words |-> {"lecture"},
                   ext |-> "pdf", days_old |-> 70]
      [] i = 4 -> [dir |-> DownloadsDir, file |-> "shot.png", words |-> {},
                   ext |-> "png", days_old |-> 100]
      [] i = 5 -> [dir |-> <<"home", "library">>, file |-> "data.csv", words |-> {},
                   ext |-> "csv", days_old |-> 5]
ScanFiles == 1..5

path_of(i) == ScanFile(i).dir \o <<ScanFile(i).file>>

\* file contents: Empty has no bytes, ContentA and ContentB differ and have
\* the same length
Empty == "empty"
ContentA == "A"
ContentB == "B"
Absent == "absent"
Contents == {Empty, ContentA, ContentB}

\* fs::metadata(..).len()
size_of(content) == IF content = Empty THEN 0 ELSE 2097152

\* the contents a file of the tree may have
ContentChoices(i) == IF i \in 1..4 THEN Contents ELSE {ContentA}

Trees == {t \in [ScanFiles -> Contents \cup {Absent}] :
            \A i \in ScanFiles : t[i] # Absent => t[i] \in ContentChoices(i)}

STUDY_EXTENSIONS == {"pdf", "docx", "pptx", "txt", "md", "ipynb", "py", "java", "c",
                     "cpp", "rs", "js", "html", "csv", "xlsx"}
EXAM_EXTENSIONS == STUDY_EXTENSIONS \cup {"png", "jpg", "jpeg"}
STUDY_PATTERNS == {"lecture", "notes", "assignment", "homework", "lab", "exam", "quiz",
                   "week", "chapter", "slide", "tutorial", "worksheet", "solution",
                   "practice", "review"}
DUPLICATE_PATTERNS == {"copy", "(1)", "(2)", "_copy", "-copy", "final_final", "old",
                       "backup", "version"}
MAX_FILES_TO_SCAN == 5000
WalkMaxDepth == 3
DEFAULT_OLD_DAYS == 60
DEFAULT_LARGE_MB == 100

\* str::contains on the lower-cased file name, for a pattern of the tables
contains(words, pattern) == pattern \in words

\* collect_candidates, the two path filters: the system-path deny-list and a
\* Hard entry returned by the protection oracle
skips_path(folders, path) ==
    \/ is_system_path(path)
    \/ LET p == is_protected(folders, path)
       IN p # None /\ p[1].protection_type = Hard

\* collect_candidates: the walk below root, to depth 3, keeping the files that
\* pass the path filters and the extension allow-list of the mode and whose
\* metadata can be read
RECURSIVE collect_from(_, _, _, _, _, _)
collect_from(t, folders, root, exam, nometa, i) ==
    IF i = 0 THEN <<>>
    ELSE LET acc == collect_from(t, folders, root, exam, nometa, i - 1)
             p == path_of(i)
         IN IF \/ Len(acc) >= MAX_FILES_TO_SCAN
               \/ t[i] = Absent
               \/ ~starts_with(p, root)
               \/ Len(p) - Len(root) > WalkMaxDepth
               \/ skips_path(folders, p)
               \/ ScanFile(i).ext \notin (IF exam THEN EXAM_EXTENSIONS ELSE STUDY_EXTENSIONS)
               \/ i \in nometa
            THEN acc
            ELSE Append(acc, i)

collect_candidates(t, folders, root, exam, nometa) ==
    collect_from(t, folders, root, exam, nometa, 5)

\* hash_file: the blake3 digest of the bytes (taken to be collision-free)
hash_file(content) == <<"blake3", content>>

InSeq(x, s) == \E k \in 1..Len(s) : s[k] = x

\* a detector that hashes every candidate
to_hash_all(t, candidates) == {i \in ScanFiles : InSeq(i, candidates)}

\* detect_duplicates: the candidates handed to hash_file, those whose size is
\* not zero and is shared with another candidate
to_hash(t, candidates) ==
    {i \in ScanFiles :
        /\ InSeq(i, candidates)
        /\ size_of(t[i]) # 0
        /\ \E j \in ScanFiles : /\ j # i
                                /\ InSeq(j, candidates)
                                /\ size_of(t[j]) = size_of(t[i])}

\* detect_duplicates: hash_cache, the digest of every candidate hash_file
\* succeeded on (unreadable files get none)
hash_cache(t, candidates, unreadable) ==
    [i \in to_hash(t, candidates) \ unreadable |-> hash_file(t[i])]

\* detect_duplicates: hash_groups, digest -> the paths with that digest
hash_groups(t, candidates, unreadable) ==
    LET hc == hash_cache(t, candidates, unreadable)
    IN [h \in {hc[i] : i \in DOMAIN hc} |-> {i \in DOMAIN hc : hc[i] = h}]

\* scan, lines 178-182: a candidate is a duplicate when its digest's group has
\* more than one member
is_duplicate(hc, hg, i) == i \in DOMAIN hc /\ Cardinality(hg[hc[i]]) > 1

\* a categoriser that tests the size before the age
categorize_file_size_first(words, days_old, size, large_threshold_mb) ==
    IF contains(words, "lecture") \/ contains(words, "slide")
          \/ contains(words, "presentation") THEN "Lecture"
    ELSE IF contains(words, "assignment") \/ contains(words, "homework")
          \/ contains(words, "hw") THEN "Assignment"
    ELSE IF contains(words, "textbook") \/ contains(words, "book")
          \/ contains(words, "reference") THEN "Reference"
    ELSE IF size > large_threshold_mb * 1024 * 1024 THEN "Large"
    ELSE IF days_old > DEFAULT_OLD_DAYS THEN "Old"
    ELSE "Other"

\* categorize_file: file name keyword, then age, then size, then Other
categorize_file(words, days_old, size, large_threshold_mb) ==
    IF contains(words, "lecture") \/ contains(words, "slide")
          \/ contains(words, "presentation") THEN "Lecture"
    ELSE IF contains(words, "assignment") \/ contains(words, "homework")
          \/ contains(words, "hw") THEN "Assignment"
    ELSE IF contains(words, "textbook") \/ contains(words, "book")
          \/ contains(words, "reference") THEN "Reference"
    ELSE IF days_old > DEFAULT_OLD_DAYS THEN "Old"
    ELSE IF size > large_threshold_mb * 1024 * 1024 THEN "Large"
    ELSE "Other"

\* scan, lines 184-188: the category of a FileInfo
category_of(dup, words, days_old, size, large_threshold_mb) ==
    IF dup THEN "Duplicate" ELSE categorize_file(words, days_old, size, large_threshold_mb)

\* a scorer that adds the signals up
Plus(a, b) == a + b

Max(a, b) == IF a >= b THEN a ELSE b
Min(a, b) == IF a <= b THEN a ELSE b

\* Confidence values are in units of 1/3000: 0.99 is 2970, 0.1 is 300.
ExactDuplicateConfidence == 2970
DuplicateNameConfidence == 2550
VeryOldConfidence == 2850
VeryOldDays == 90
SignalBase == 2100
SignalBonusCap == 750
StudyConfidence == 2250
StudyCategoryFloor == 1950
OldCategoryFloor == 2550
LargeCategoryFloor == 2250
OtherCategoryFloor == 1200
ScreenshotCap == 1200
MinConfidence == 300
MaxConfidence == 3000
LowConfidence == 1200

\* a scorer without the exam-mode cap
exam_cap_none(exam, ext, c) == c

\* calculate_confidence, lines 541-552: the exam-mode cap on image files
exam_cap(exam, ext, c) ==
    IF exam /\ ext \in {"png", "jpg", "jpeg"} THEN Min(c, ScreenshotCap) ELSE c

\* a scorer that does not score an exact duplicate
duplicate_signal_none(dup, group_size) == 0

\* calculate_confidence, lines 468-482: the exact-duplicate signal
duplicate_signal(dup, group_size) ==
    IF dup /\ group_size > 1 THEN ExactDuplicateConfidence ELSE 0

\* a scorer that returns the value as it is
clamp_none(c) == c

\* calculate_confidence, lines 553-564: the absolute floor and the final clamp
clamp(c) == Min(Max(c, MinConfidence), MaxConfidence)

\* a scorer without category floors
category_floor_none(category, c) == c

\* calculate_confidence, lines 520-538: the category-based adjustment
category_floor(category, c) ==
    CASE category \in {"Lecture", "Assignment", "Reference"} -> Max(c, StudyCategoryFloor)
      [] category = "Old" -> Max(c, OldCategoryFloor)
      [] category = "Large" -> Max(c, LargeCategoryFloor)
      [] category = "Other" -> Max(c, OtherCategoryFloor)
      [] category = "Duplicate" -> c

\* calculate_confidence: the maximum of the signals that fire and the floor of
\* the category, capped for exam-mode images, at least 0.1 and at most 1.0
calculate_confidence(words, ext, days_old, size, days_threshold, large_threshold_mb, group_size, category, dup, exam) ==
    LET c1 == duplicate_signal(dup, group_size)
        c2 == IF \E pat \in DUPLICATE_PATTERNS : contains(words, pat)
              THEN Max(c1, DuplicateNameConfidence) ELSE c1
        c3 == IF days_old > VeryOldDays THEN Max(c2, VeryOldConfidence)
              ELSE IF days_old > days_threshold
                   THEN Max(c2, SignalBase
                                + Min((days_old - days_threshold) * 100, SignalBonusCap))
                   ELSE c2
        c4 == IF size > large_threshold_mb * 1024 * 1024
              THEN Max(c3, SignalBase + Min((size * 3) \div 1048576, SignalBonusCap))
              ELSE c3
        c5 == IF \E pat \in STUDY_PATTERNS : contains(words, pat)
              THEN Max(c4, StudyConfidence) ELSE c4
        c6 == category_floor(category, c5)
        c7 == exam_cap(exam, ext, c6)
    IN clamp(c7)

\* calculate_confidence, the reasons vector: one clause per signal that fires,
\* in the order of the tests, the screenshot clause last; the reason string
\* joins them with " + "
reasons_of(words, ext, days_old, size, days_threshold, large_threshold_mb, group_size, dup, exam) ==
    LET r1 == IF dup /\ group_size > 1 THEN <<"Exact duplicate">> ELSE <<>>
        r2 == IF \E pat \in DUPLICATE_PATTERNS : contains(words, pat)
              THEN Append(r1, "Filename suggests duplicate") ELSE r1
        r3 == IF days_old > VeryOldDays THEN Append(r2, "Very old")
              ELSE IF days_old > days_threshold THEN Append(r2, "Old") ELSE r2
        r4 == IF size > large_threshold_mb * 1024 * 1024 THEN Append(r3, "Large file") ELSE r3
        r5 == IF \E pat \in STUDY_PATTERNS : contains(words, pat)
              THEN Append(r4, "Study-related file") ELSE r4
    IN IF exam /\ ext \in {"png", "jpg", "jpeg"}
       THEN Append(r5, "Screenshot (lower confidence)") ELSE r5

\* scan, lines 165-233: the FileInfo of one candidate
analyse(t, i, hc, hg, days_threshold, large_threshold_mb, exam) ==
    LET f == ScanFile(i)
        size == size_of(t[i])
        dup == is_duplicate(hc, hg, i)
        category == category_of(dup, f.words, f.days_old, size, large_threshold_mb)
        group_size == IF i \in DOMAIN hc THEN Cardinality(hg[hc[i]]) ELSE 0
    IN [path |-> i, size_bytes |-> size, days_old |-> f.days_old,
        hash |-> IF i \in DOMAIN hc THEN Some(hc[i]) ELSE None,
        confidence |-> calculate_confidence(f.words, f.ext, f.days_old, size,
                          days_threshold, large_threshold_mb, group_size, category,
                          dup, exam),
        category |-> category]

\* files.sort_by(|a, b| b.confidence.partial_cmp(&a.confidence)): a stable
\* sort, highest confidence first
RECURSIVE insert_sorted(_, _)
insert_sorted(s, x) ==
    IF s = <<>> THEN <<x>>
    ELSE IF s[Len(s)].confidence >= x.confidence THEN Append(s, x)
    ELSE Append(insert_sorted(SubSeq(s, 1, Len(s) - 1), x), s[Len(s)])

\* a scan that returns the records in the order of analysis
sort_none(s) == s

RECURSIVE sort_by_confidence(_)
sort_by_confidence(s) ==
    IF s = <<>> THEN <<>>
    ELSE insert_sorted(sort_by_confidence(SubSeq(s, 1, Len(s) - 1)), s[Len(s)])

\* a filter that lets only the highest confidences through
low_confidence_high_bar(exam, confidence) == ~exam /\ confidence < VeryOldConfidence

\* a filter that also runs in exam mode and drops a confidence of exactly 0.4
low_confidence_any_mode(exam, confidence) == confidence <= LowConfidence

\* scan, lines 203-205: !self.is_exam_mode && confidence < 0.4
low_confidence(exam, confidence) == ~exam /\ confidence < LowConfidence

\* scan, lines 165-233: the records of the candidates that still exist and
\* pass the low-confidence filter of normal mode, in candidate order
RECURSIVE analyse_all(_, _, _, _, _, _, _, _)
analyse_all(t, candidates, hc, hg, vanished, days_threshold, large_threshold_mb, exam) ==
    IF candidates = <<>> THEN <<>>
    ELSE LET rest == analyse_all(t, SubSeq(candidates, 1, Len(candidates) - 1), hc, hg,
                                 vanished, days_threshold, large_threshold_mb, exam)
             i == candidates[Len(candidates)]
             info == analyse(t, i, hc, hg, days_threshold, large_threshold_mb, exam)
         IN IF i \in vanished THEN rest
            ELSE IF low_confidence(exam, info.confidence) THEN rest
            ELSE Append(rest, info)

\* scan, lines 208-213: the counter of the records of category Old
old_files_found(files) == Cardinality({k \in 1..Len(files) : files[k].category = "Old"})

EmptyScan ==
    [candidates |-> <<>>, hashed |-> {}, groups |-> {}, files |-> <<>>, old_files_found |-> 0]

\* Scanner::scan
scan(t, folders, root, exam, days_threshold, large_threshold_mb, nometa, unreadable, vanished) ==
    LET p == is_protected(folders, root)
        candidates == collect_candidates(t, folders, root, exam, nometa)
        hc == hash_cache(t, candidates, unreadable)
        hg == hash_groups(t, candidates, unreadable)
        files == analyse_all(t, candidates, hc, hg, vanished, days_threshold,
                             large_threshold_mb, exam)
    IN IF is_system_path(root) THEN EmptyScan
       ELSE IF p # None /\ p[1].protection_type = Hard THEN EmptyScan
       ELSE IF candidates = <<>> THEN EmptyScan
       ELSE [candidates |-> candidates, hashed |-> to_hash(t, candidates),
             groups |-> {hg[h] : h \in DOMAIN hg},
             files |-> sort_by_confidence(files),
             old_files_found |-> old_files_found(files)]

----------------------------------------------------------------------------
(* archive.rs: the archive store *)

ReportName == [base |-> "report", sfx |-> <<>>, ext |-> "docx"]
DropboxDir == <<"home", "docs", "dropbox">>

\* the files clean_files may be handed: two files named report.docx in
\* different folders (one under the Hard entry), and report_1.docx in a cloud
\* folder under the Soft entry; words are the COURSE_PATTERNS that occur in
\* the lower-cased file name
ArchFile(f) ==
    CASE f = 1 -> [dir |-> DownloadsDir, name |-> ReportName, words |-> {}]
      [] f = 2 -> [dir |-> PrivateDir, name |-> ReportName, words |-> {}]
      [] f = 3 -> [dir |-> DropboxDir, name |-> [ReportName EXCEPT !.sfx = <<1>>],
                   words |-> {}]

ArchFiles == 1..3

\* the path of a source file; the last component stands for the file name
arch_path(f) == Append(ArchFile(f).dir, "file")

\* Config.protected_folders of the archive runs, in the order `protect add`
\* leaves them
ArchiveConfig == <<ProtectedFolder(PrivateDir, Hard), ProtectedFolder(DocsDir, Soft)>>

COURSE_PATTERNS ==
    <<[course |-> "cs", patterns |-> {"cs", "computer", "programming", "algorithm", "software"}],
      [course |-> "math", patterns |-> {"math", "calculus", "algebra", "statistics", "geometry"}],
      [course |-> "science", patterns |-> {"physics", "chemistry", "biology", "science", "lab"}],
      [course |-> "engineering", patterns |-> {"engineer", "mechanical", "electrical", "civil", "robotics"}],
      [course |-> "business", patterns |-> {"business", "management", "finance", "economics", "marketing"}],
      [course |-> "humanities", patterns |-> {"history", "literature", "philosophy", "art", "psychology"}]>>

\* the components that contain a name of CLOUD_FOLDERS once lower-cased
CloudComponents == {"onedrive", "dropbox", "google drive", "icloud drive", "box", "inbox"}

\* ArchiveSystem::detect_course: the first row of COURSE_PATTERNS with a
\* pattern in the file name, else "general"
RECURSIVE detect_course_from(_, _)
detect_course_from(words, k) ==
    IF k > Len(COURSE_PATTERNS) THEN "general"
    ELSE IF \E pat \in COURSE_PATTERNS[k].patterns : contains(words, pat)
         THEN COURSE_PATTERNS[k].course
    ELSE detect_course_from(words, k + 1)

detect_course(f) == detect_course_from(ArchFile(f).words, 1)

\* ArchiveSystem::is_in_cloud_folder
is_in_cloud_folder(path) == \E i \in 1..Len(path) : path[i] \in CloudComponents

\* format!("{}_{}.{}", stem, counter, extension); counter 0 is the name itself
Suffixed(name, counter) ==
    IF counter = 0 THEN name ELSE [name EXCEPT !.sfx = Append(name.sfx, counter)]

\* the snapshot directory <archive_path>/<day>. filler > 0 says that earlier
\* runs of the day left report.docx, report_1.docx .. report_<filler-1>.docx
\* in its general folder; files are the files the modelled runs moved in:
\* [course, name, src]. manifest is archive_info.json: None, or
\* Some([total_files, earlier, files]) where earlier counts the records of
\* the filler files. reminder is .reminder_date (a day), keep is .keep_forever.
\* aborted records that a run into the snapshot ended with an error.
NoSnapshot ==
    [exists |-> FALSE, filler |-> 0, courses |-> {}, files |-> {}, manifest |-> None,
     reminder |-> None, keep |-> FALSE, aborted |-> FALSE]

\* the names present in a course folder of a snapshot
names_in(snap, course) ==
    {e.name : e \in {x \in snap.files : x.course = course}}
      \cup (IF course = "general"
            THEN {Suffixed(ReportName, j) : j \in 0..(snap.filler - 1)} ELSE {})

MaxNameAttempts == 100

\* a resolution that takes the file's own name without looking
resolve_no_check(present, name) == [dest |-> name, counter |-> 1, fails |-> 0]

\* clean_to_archive, lines 315-340: the while loop that looks for a free
\* destination name. Round r of the loop tries <stem>_<r>.<ext> and leaves
\* counter = r + 1; rounds is the number of rounds the loop runs, that is the
\* least k such that the k-th name (the 0-th being the file's own) is free.
rounds(present, name) ==
    CHOOSE k \in 0..Cardinality(present) :
        /\ Suffixed(name, k) \notin present
        /\ \A j \in 0..(k - 1) : Suffixed(name, j) \in present

\* `continue` at line 338 continues the while loop: every round that leaves
\* counter > 100 pushes one failed_files entry (fails), and the loop still ends
\* at the first free name, which the rename below it then uses.
resolve_dest(present, name) ==
    LET k == rounds(present, name)
    IN [dest |-> Suffixed(name, k), counter |-> k + 1,
        fails |-> Cardinality({r \in 1..k : r + 1 > MaxNameAttempts})]

EmptyResult ==
    [files_processed |-> 0, successful_files |-> <<>>, failed_files |-> <<>>]

\* clean_files, lines 97-107: the call only previews
is_preview_safe_only(dry_run, safe_mode) == safe_mode

is_preview(dry_run, safe_mode) == safe_mode \/ dry_run

RECURSIVE push_times(_, _, _)
push_times(s, x, n) == IF n = 0 THEN s ELSE push_times(Append(s, x), x, n - 1)

ReminderDays == 30
SnoozeDays == 7

\* the days that can hold a snapshot directory
MaxSnapDay == 1
SnapDays == 0..MaxSnapDay

\* the number of report*.docx files earlier runs may have left in day 0's
\* general folder
Prefill == 99

\* the longest files argument of clean_files
MaxBatch == 2

\* the number of clean_files calls of a run
MaxCalls == 2
Batches == UNION {[1..n -> ArchFiles] : n \in 0..MaxBatch}

NoCall == [op |-> "none", dry_run |-> FALSE, safe_mode |-> FALSE, action |-> "none",
           outcome |-> "none"]

\* no clean_files call has run and no snapshot exists
ArchiveIdle ==
    /\ calls = 0
    /\ today = 0
    /\ place = [f \in ArchFiles |-> "orig"]
    /\ snaps = [d \in SnapDays |-> NoSnapshot]
    /\ pc = "idle"
    /\ queue = <<>>
    /\ pos = 1
    /\ result = EmptyResult
    /\ archive_info = <<>>
    /\ batch_day = 0
    /\ prompts = <<>>
    /\ done = <<>>
    /\ last_call = NoCall

----------------------------------------------------------------------------
(* SpecProtect: is_protected over every protected-folder list *)

\* no file misbehaves
NoFaults == [nometa |-> {}, unreadable |-> {}, vanished |-> {}]

\* the arguments of calculate_confidence and categorize_file: words are the
\* table patterns in the lower-cased file name
ScoreArgs(words, ext, days_old, size, days_threshold, large_threshold_mb, group_size, category, dup, exam) ==
    [words |-> words, ext |-> ext, days_old |-> days_old, size |-> size,
     days_threshold |-> days_threshold, large_threshold_mb |-> large_threshold_mb,
     group_size |-> group_size, category |-> category, dup |-> dup, exam |-> exam]

\* no scoring call has been made
ScoreIdle ==
    /\ score_in = ScoreArgs({}, "pdf", 0, 0, DEFAULT_OLD_DAYS, DEFAULT_LARGE_MB, 0, "Other",
                            FALSE, FALSE)
    /\ score_out = None

ScanIdle ==
    /\ tree = [i \in ScanFiles |-> Absent]
    /\ scan_in = [root |-> <<"home">>, exam |-> FALSE, env |-> NoFaults]
    /\ scan_out = None
    /\ ScoreIdle

\* no command runs, and the saved config holds no exam tracking
NoExam ==
    [config |-> None, tracker |-> None, pc |-> "shell", choice |-> None,
     selected |-> None, cleaned |-> None]

ExamIdle == exam_manager = NoExam

InitProtect ==
    /\ protected_folders \in ProtectedLists
    /\ ExamIdle
    /\ lookup = None
    /\ ScanIdle
    /\ ArchiveIdle

\* one call of Config::is_protected
Lookup(path) ==
    /\ lookup' = Some([path |-> path, result |-> is_protected(protected_folders, path)])
    /\ UNCHANGED <<exam_manager, protected_folders, scanVars, archiveVars>>

NextProtect == \E path \in QueryPaths : Lookup(path)

SpecProtect == InitProtect /\ [][NextProtect]_vars

\* the entries of the list that are a prefix of the path
Matching(folders, path) == {i \in 1..Len(folders) : starts_with(path, folders[i].path)}

\* C9: is_protected returns the entry whose folder is the longest prefix of the
\* path among the entries that are a prefix of it, and None when there is none,
\* whatever the order of the list.
C9_LongestPrefix ==
    lookup # None =>
        LET m == Matching(protected_folders, lookup[1].path)
            r == lookup[1].result
        IN IF m = {} THEN r = None
           ELSE /\ r # None
                /\ \E i \in m : /\ r[1] = protected_folders[i]
                                /\ \A j \in m : Len(protected_folders[j].path)
                                                  <= Len(protected_folders[i].path)

----------------------------------------------------------------------------
(* SpecScan: Scanner::scan over the trees and configurations of the model *)

HomeDir == <<"home">>
ScanRoots == {HomeDir, PrivateDir}

\* the protected-folder lists the scanner runs under
ScanConfigs ==
    {<<>>,
     <<ProtectedFolder(PrivateDir, Hard), ProtectedFolder(DocsDir, Soft)>>,
     <<ProtectedFolder(DocsDir, Soft), ProtectedFolder(PrivateDir, Hard)>>}

\* the environment of a scan: at most one file of the tree misbehaves: its
\* metadata read fails (nometa), hash_file cannot open it (unreadable) or it
\* is gone when the candidates are analysed (vanished)
ScanEnvs ==
    {NoFaults}
      \cup {[NoFaults EXCEPT !.nometa = {i}] : i \in ScanFiles}
      \cup {[NoFaults EXCEPT !.unreadable = {i}] : i \in ScanFiles}
      \cup {[NoFaults EXCEPT !.vanished = {i}] : i \in ScanFiles}

InitScan ==
    /\ protected_folders \in ScanConfigs
    /\ ExamIdle
    /\ tree \in Trees
    /\ scan_in \in [root : ScanRoots, exam : BOOLEAN, env : ScanEnvs]
    /\ scan_out = None
    /\ ScoreIdle
    /\ lookup = None
    /\ ArchiveIdle

\* the call of Scanner::scan with the default thresholds
Scan ==
    /\ scan_out = None
    /\ scan_out' = Some(scan(tree, protected_folders, scan_in.root, scan_in.exam,
                             DEFAULT_OLD_DAYS, DEFAULT_LARGE_MB, scan_in.env.nometa,
                             scan_in.env.unreadable, scan_in.env.vanished))
    /\ UNCHANGED <<exam_manager, protected_folders, tree, scan_in, score_in, score_out, protectVars,
                   archiveVars>>

NextScan == Scan

SpecScan == InitScan /\ [][NextScan]_vars

\* the FileRecords of the last scan
Records == {scan_out[1].files[k] : k \in 1..Len(scan_out[1].files)}

\* two different candidates of the last scan with identical bytes
SameContent(i, j) ==
    /\ i # j
    /\ InSeq(i, scan_out[1].candidates)
    /\ InSeq(j, scan_out[1].candidates)
    /\ tree[i] = tree[j]

IsImage(i) == ScanFile(i).ext \in {"png", "jpg", "jpeg"}

\* C3 as stated: any two candidates with identical bytes (any size, any
\* allowed extension, either mode) are in one duplicate group, and both have
\* a FileRecord of category Duplicate with the same digest and confidence
\* >= 0.99.
C3_IdenticalContentIsDuplicate ==
    scan_out # None =>
        \A i, j \in ScanFiles :
            SameContent(i, j) =>
                /\ \E g \in scan_out[1].groups : {i, j} \subseteq g
                /\ \A k \in {i, j} :
                     \E r \in Records : /\ r.path = k
                                        /\ r.category = "Duplicate"
                                        /\ r.hash = Some(hash_file(tree[i]))
                                        /\ r.confidence >= ExactDuplicateConfidence

\* C3 amended: any two candidates with identical, non-empty bytes that
\* hash_file can read are in one duplicate group; each of the two that still
\* exists when it is analysed has a FileRecord of category Duplicate with
\* their common digest, whose confidence is >= 0.99, or exactly 0.4 for an
\* image file in exam mode.
C3_NonEmptyReadableIsDuplicate ==
    scan_out # None =>
        \A i, j \in ScanFiles :
            (/\ SameContent(i, j)
             /\ size_of(tree[i]) # 0
             /\ {i, j} \cap scan_in.env.unreadable = {}) =>
                /\ \E g \in scan_out[1].groups : {i, j} \subseteq g
                /\ \A k \in {i, j} \ scan_in.env.vanished :
                     \E r \in Records :
                        /\ r.path = k
                        /\ r.category = "Duplicate"
                        /\ r.hash = Some(hash_file(tree[i]))
                        /\ IF scan_in.exam /\ IsImage(k)
                           THEN r.confidence = ScreenshotCap
                           ELSE r.confidence >= ExactDuplicateConfidence

\* a scan that found two readable copies of non-empty content, one of them an
\* exam-mode image, and reported both
C3_Witness ==
    /\ scan_out # None
    /\ scan_in.exam
    /\ scan_in.env.unreadable = {}
    /\ \E i, j \in ScanFiles :
          /\ SameContent(i, j)
          /\ size_of(tree[i]) # 0
          /\ IsImage(j) /\ ~IsImage(i)
          /\ \E r, q \in Records : /\ r.path = i /\ q.path = j
                                   /\ r.category = "Duplicate"
                                   /\ q.category = "Duplicate"

\* the path lies under a Hard entry of the protected-folder list
UnderHard(folders, path) ==
    \E k \in 1..Len(folders) : /\ folders[k].protection_type = Hard
                               /\ starts_with(path, folders[k].path)

\* C10: no FileRecord returned by scan has a path under a Hard-protected
\* entry or a path matching the system-path deny-list.
C10_NoHardOrSystemRecord ==
    scan_out # None =>
        \A r \in Records :
            /\ ~UnderHard(protected_folders, path_of(r.path))
            /\ ~is_system_path(path_of(r.path))

----------------------------------------------------------------------------
(* Spec: ArchiveSystem::clean_files, one loop iteration per step *)

\* the snapshot earlier runs of day 0 may have left: Prefill files named
\* report.docx, report_1.docx, .. in its general folder, all in the manifest
PrefilledSnapshot ==
    [NoSnapshot EXCEPT !.exists = TRUE, !.filler = Prefill, !.courses = {"general"},
                       !.manifest = Some([total_files |-> Prefill, earlier |-> Prefill,
                                          files |-> <<>>]),
                       !.reminder = Some(ReminderDays)]

Init ==
    /\ protected_folders = ArchiveConfig
    /\ ExamIdle
    /\ lookup = None
    /\ ScanIdle
    /\ calls = 0
    /\ today = 0
    /\ place = [f \in ArchFiles |-> "orig"]
    /\ snaps \in {[d \in SnapDays |-> NoSnapshot],
                  [d \in SnapDays |-> IF d = 0 THEN PrefilledSnapshot ELSE NoSnapshot]}
    /\ pc = "idle"
    /\ queue = <<>>
    /\ pos = 1
    /\ result = EmptyResult
    /\ archive_info = <<>>
    /\ batch_day = 0
    /\ prompts = <<>>
    /\ done = <<>>
    /\ last_call = NoCall

\* midnight passes between two calls
Tick ==
    /\ pc = "idle"
    /\ today < MaxSnapDay
    /\ today' = today + 1
    /\ UNCHANGED <<exam_manager, protected_folders, protectVars, scanVars, calls, fsVars, batchVars>>

Call(dry_run, safe_mode, action, outcome) ==
    [op |-> "clean_files", dry_run |-> dry_run, safe_mode |-> safe_mode,
     action |-> action, outcome |-> outcome]

\* preview_cleanup: counts the files that exist
preview_cleanup(files) ==
    [EmptyResult EXCEPT
        !.files_processed = Cardinality({k \in 1..Len(files) : place[files[k]] = "orig"})]

\* ArchiveSystem::clean_files up to the first loop iteration: an empty list
\* and a preview return at once; clean_to_archive first creates the day's
\* snapshot directory (mkdir_ok: create_dir_all succeeds)
CleanFiles(files, dry_run, safe_mode, action, mkdir_ok) ==
    /\ pc = "idle"
    /\ calls < MaxCalls
    /\ calls' = calls + 1
    /\ queue' = files
    /\ pos' = 1
    /\ archive_info' = <<>>
    /\ prompts' = <<>>
    /\ done' = <<>>
    /\ IF files = <<>>
       THEN /\ result' = EmptyResult
            /\ last_call' = Call(dry_run, safe_mode, action, "ok")
            /\ UNCHANGED <<pc, batch_day, fsVars>>
       ELSE IF is_preview(dry_run, safe_mode)
       THEN /\ result' = preview_cleanup(files)
            /\ last_call' = Call(dry_run, safe_mode, action, "ok")
            /\ UNCHANGED <<pc, batch_day, fsVars>>
       ELSE IF action = "RecycleBin"
       THEN /\ result' = EmptyResult
            /\ pc' = "recycle"
            /\ last_call' = Call(dry_run, safe_mode, action, "running")
            /\ UNCHANGED <<batch_day, fsVars>>
       ELSE IF ~mkdir_ok
       THEN /\ result' = EmptyResult
            /\ last_call' = Call(dry_run, safe_mode, action, "error")
            /\ UNCHANGED <<pc, batch_day, fsVars>>
       ELSE /\ result' = EmptyResult
            /\ pc' = "archive"
            /\ batch_day' = today
            /\ snaps' = [snaps EXCEPT ![today].exists = TRUE]
            /\ last_call' = Call(dry_run, safe_mode, action, "running")
            /\ UNCHANGED place
    /\ UNCHANGED <<exam_manager, protected_folders, protectVars, scanVars, today>>

\* one call of the decision oracle: the position of the file it is about,
\* the question and the answer
Prompt(kind, answer) == [pos |-> pos, kind |-> kind, answer |-> answer]
\* the call of handle_locked_file: recheck is the result of the is_file_locked
\* call that follows the wait of "retry" (None: no such call was made)
LockPrompt(answer, still_locked) ==
    [pos |-> pos, kind |-> "locked", answer |-> answer,
     recheck |-> IF answer = "retry" THEN Some(still_locked) ELSE None]
\* what an iteration did: counter is the value the name loop left in `counter`
\* (0 when the iteration did not reach it)
Did(effect, counter) ==
    [pos |-> pos, file |-> queue[pos], effect |-> effect, counter |-> counter]

\* a handler that treats "Cancel all" like "Skip this file"
lock_decision_cancel_skips(locked, answer, still_locked) ==
    IF ~locked THEN "go"
    ELSE IF answer = "retry" /\ ~still_locked THEN "go"
    ELSE "skip"

\* a handler for which "retry" lets the file through without looking again
lock_decision_retry_goes(locked, answer, still_locked) ==
    IF ~locked THEN "go"
    ELSE IF answer = "cancel" THEN "cancel"
    ELSE IF answer = "retry" THEN "go"
    ELSE "skip"

\* is_file_locked and handle_locked_file: "go" (not locked, or unlocked at the
\* one re-check after "retry"), "skip", or "cancel" (the Err that unwinds)
lock_decision(locked, answer, still_locked) ==
    IF ~locked THEN "go"
    ELSE IF answer = "cancel" THEN "cancel"
    ELSE IF answer = "retry" /\ ~still_locked THEN "go"
    ELSE "skip"

\* a confirmation that lets every protected file through
protected_decision_always_go(protection_type, confirm) == "go"

\* confirm_protected_deletion: Hard is refused without asking, Soft asks
protected_decision(protection_type, confirm) ==
    IF protection_type = Hard THEN "skip"
    ELSE IF confirm THEN "go" ELSE "skip"

\* the loop of the running call ends with an Err: nothing more is handled
Unwind(outcome) ==
    /\ pc' = "idle"
    /\ last_call' = [last_call EXCEPT !.outcome = outcome]
    /\ UNCHANGED <<queue, pos, result, archive_info, batch_day, done, place>>

\* the loop goes on to the next file
Advance(effect, counter) ==
    /\ pos' = pos + 1
    /\ done' = Append(done, Did(effect, counter))
    /\ UNCHANGED <<pc, queue, batch_day, last_call>>

\* clean_to_archive, one iteration of the for loop (lines 273-373); io names
\* the file-system call of the iteration that fails, if one does
ArchiveStep(locked, answer, still_locked, io) ==
    /\ pc = "archive"
    /\ pos <= Len(queue)
    /\ LET f == queue[pos]
           snap == snaps[batch_day]
           lock == lock_decision(locked, answer, still_locked)
           course == detect_course(f)
           r == resolve_dest(names_in(snap, course), ArchFile(f).name)
           conflicts == push_times(result.failed_files,
                                   [file |-> f, cause |-> "Too many filename conflicts"],
                                   r.fails)
       IN /\ prompts' = IF place[f] = "orig" /\ locked
                        THEN Append(prompts, LockPrompt(answer, still_locked)) ELSE prompts
          /\ IF place[f] # "orig"
             THEN /\ Advance("missing", 0)
                  /\ UNCHANGED <<result, archive_info, fsVars>>
             ELSE IF lock = "cancel"
             THEN /\ Unwind("cancelled")
                  /\ snaps' = [snaps EXCEPT ![batch_day].aborted = TRUE]
             ELSE IF lock = "skip"
             THEN /\ Advance("skipped", 0)
                  /\ UNCHANGED <<result, archive_info, fsVars>>
             ELSE IF io = "metadata"
             THEN /\ Advance("failed", 0)
                  /\ result' = [result EXCEPT !.failed_files =
                                   Append(@, [file |-> f, cause |-> "Cannot read metadata"])]
                  /\ UNCHANGED <<archive_info, fsVars>>
             ELSE IF io = "create_dir_all"
             THEN /\ Unwind("error")
                  /\ snaps' = [snaps EXCEPT ![batch_day].aborted = TRUE]
             ELSE IF io = "rename"
             THEN /\ Advance("failed", r.counter)
                  /\ result' = [result EXCEPT !.failed_files =
                                   Append(conflicts, [file |-> f, cause |-> "rename"])]
                  /\ snaps' = [snaps EXCEPT ![batch_day].courses = @ \cup {course}]
                  /\ UNCHANGED <<archive_info, place>>
             ELSE /\ Advance("moved", r.counter)
                  /\ result' = [files_processed |-> result.files_processed + 1,
                                successful_files |-> Append(result.successful_files, f),
                                failed_files |-> conflicts]
                  /\ archive_info' = Append(archive_info,
                                            [original_path |-> f, course |-> course,
                                             archived_path |-> r.dest])
                  /\ place' = [place EXCEPT ![f] = "archive"]
                  /\ snaps' = [snaps EXCEPT
                        ![batch_day].courses = @ \cup {course},
                        ![batch_day].files =
                            {e \in @ : ~(e.course = course /\ e.name = r.dest)}
                              \cup {[course |-> course, name |-> r.dest, src |-> f]}]
    /\ UNCHANGED <<exam_manager, protected_folders, protectVars, scanVars, calls, today>>

\* clean_to_archive after the loop (lines 377-403): the manifest is written
\* when a file was archived, then .reminder_date; io names the write that fails
ArchiveFinish(io) ==
    /\ pc = "archive"
    /\ pos > Len(queue)
    /\ pc' = "idle"
    /\ LET written == IF archive_info # <<>> /\ io # "manifest"
                      THEN [snaps EXCEPT ![batch_day].manifest =
                                Some([total_files |-> Len(archive_info), earlier |-> 0,
                                      files |-> archive_info])]
                      ELSE snaps
       IN IF archive_info # <<>> /\ io = "manifest"
          THEN /\ snaps' = [snaps EXCEPT ![batch_day].aborted = TRUE]
               /\ last_call' = [last_call EXCEPT !.outcome = "error"]
          ELSE IF io = "reminder"
          THEN /\ snaps' = [written EXCEPT ![batch_day].aborted = TRUE]
               /\ last_call' = [last_call EXCEPT !.outcome = "error"]
          ELSE /\ snaps' = [written EXCEPT ![batch_day].reminder = Some(today + ReminderDays)]
               /\ last_call' = [last_call EXCEPT !.outcome = "ok"]
    /\ UNCHANGED <<exam_manager, protected_folders, protectVars, scanVars, calls, today, place, queue, pos,
                   result, archive_info, batch_day, prompts, done>>

\* clean_to_recycle_bin, one iteration of the for loop (lines 191-240)
RecycleStep(cloud_answer, locked, answer, still_locked, confirm, trash_ok) ==
    /\ pc = "recycle"
    /\ pos <= Len(queue)
    /\ LET f == queue[pos]
           cloud == is_in_cloud_folder(arch_path(f))
           asked1 == IF cloud THEN Append(prompts, Prompt("cloud", cloud_answer)) ELSE prompts
           lock == lock_decision(locked, answer, still_locked)
           asked2 == IF locked THEN Append(asked1, LockPrompt(answer, still_locked)) ELSE asked1
           protected == is_protected(protected_folders, arch_path(f))
           soft == protected # None /\ protected[1].protection_type = Soft
           hard == protected # None /\ protected[1].protection_type = Hard
           asked3 == IF soft
                     THEN Append(asked2, Prompt("protected", IF confirm THEN "delete" ELSE "skip"))
                     ELSE asked2
       IN /\ UNCHANGED <<archive_info, snaps>>
          /\ IF place[f] # "orig"
             THEN /\ Advance("missing", 0)
                  /\ UNCHANGED <<result, place, prompts>>
             ELSE IF cloud /\ cloud_answer = "cancel"
             THEN /\ prompts' = asked1
                  /\ Unwind("cancelled")
             ELSE IF cloud /\ cloud_answer = "skip"
             THEN /\ Advance("skipped", 0)
                  /\ prompts' = asked1
                  /\ UNCHANGED <<result, place>>
             ELSE IF lock = "cancel"
             THEN /\ prompts' = asked2
                  /\ Unwind("cancelled")
             ELSE IF lock = "skip"
             THEN /\ Advance("skipped", 0)
                  /\ prompts' = asked2
                  /\ UNCHANGED <<result, place>>
             ELSE IF protected # None
                     /\ protected_decision(protected[1].protection_type, confirm) = "skip"
             THEN /\ Advance("skipped", 0)
                  /\ prompts' = asked3
                  /\ UNCHANGED <<result, place>>
             ELSE IF ~trash_ok
             THEN /\ Advance("failed", 0)
                  /\ prompts' = asked3
                  /\ result' = [result EXCEPT !.failed_files =
                                   Append(@, [file |-> f, cause |-> "trash"])]
                  /\ UNCHANGED place
             ELSE /\ Advance("trashed", 0)
                  /\ prompts' = asked3
                  /\ result' = [result EXCEPT
                                   !.files_processed = @ + 1,
                                   !.successful_files = Append(@, f)]
                  /\ place' = [place EXCEPT ![f] = "trash"]
    /\ UNCHANGED <<exam_manager, protected_folders, protectVars, scanVars, calls, today>>

\* clean_to_recycle_bin after the loop (lines 242-247)
RecycleFinish ==
    /\ pc = "recycle"
    /\ pos > Len(queue)
    /\ pc' = "idle"
    /\ last_call' = [last_call EXCEPT !.outcome = "ok"]
    /\ UNCHANGED <<exam_manager, protected_folders, protectVars, scanVars, calls, today, fsVars, queue, pos,
                   result, archive_info, batch_day, prompts, done>>

LockAnswers == {"skip", "retry", "cancel"}
\* <<locked, answer, still locked at the re-check>>: the file is not locked, or
\* it is and the oracle answers; only "retry" looks at the lock again
LockEvents ==
    {<<FALSE, "skip", FALSE>>} \cup {<<TRUE, a, FALSE>> : a \in LockAnswers}
      \cup {<<TRUE, "retry", TRUE>>}
CloudAnswers == {"skip", "delete", "cancel"}
Actions == {"RecycleBin", "Archive"}

Next ==
    \/ Tick
    \/ \E files \in Batches, dry_run \in BOOLEAN, safe_mode \in BOOLEAN, action \in Actions :
          \E mkdir_ok \in IF action = "Archive" /\ files # <<>> /\ ~is_preview(dry_run, safe_mode)
                           THEN BOOLEAN ELSE {TRUE} :
            CleanFiles(files, dry_run, safe_mode, action, mkdir_ok)
    \/ \E lock \in LockEvents, io \in {"ok", "metadata", "create_dir_all", "rename"} :
            ArchiveStep(lock[1], lock[2], lock[3], io)
    \/ \E io \in {"ok", "manifest", "reminder"} : ArchiveFinish(io)
    \/ \E cloud_answer \in CloudAnswers, lock \in LockEvents, confirm \in BOOLEAN,
          trash_ok \in BOOLEAN :
            RecycleStep(cloud_answer, lock[1], lock[2], lock[3], confirm, trash_ok)
    \/ RecycleFinish

Spec == Init /\ [][Next]_vars

----------------------------------------------------------------------------
(* Properties of clean_files *)

InSnapshot(f) == \E d \in SnapDays : \E e \in snaps[d].files : e.src = f
Moved(r) == r.effect \in {"moved", "trashed"}

\* C2: in the recycle and the archive mode, a file under a Hard-protected
\* entry is never moved or trashed, and no protection confirmation is asked
\* for it.
C2_HardNeverTouched ==
    \A f \in ArchFiles :
        UnderHard(protected_folders, arch_path(f)) =>
            /\ place[f] = "orig"
            /\ \A k \in DOMAIN prompts :
                   prompts[k].kind = "protected" => queue[prompts[k].pos] # f

\* the entries of a snapshot whose source files were all named `name`
SameNamed(snap, name) == {e \in snap.files : ArchFile(e.src).name = name}

\* C4 as stated: the same-named files archived into one course folder on one
\* day have pairwise distinct names, the k-th of them (counting the files of
\* that name the day's earlier runs left) carries the suffix k-1, and no file
\* of the snapshot is overwritten.
C4_KthGetsSuffix ==
    /\ \A f \in ArchFiles : place[f] = "archive" => InSnapshot(f)
    /\ \A d \in SnapDays : \A e \in snaps[d].files :
           LET same == {x \in SameNamed(snaps[d], ArchFile(e.src).name) : x.course = e.course}
               before == IF ArchFile(e.src).name = ReportName /\ e.course = "general"
                         THEN snaps[d].filler ELSE 0
           IN {x.name : x \in same} =
                  {Suffixed(ArchFile(e.src).name, before + j) :
                       j \in 0..(Cardinality(same) - 1)}

\* C4 amended: every archived file keeps an entry of its own (nothing is
\* overwritten, neither a file of an earlier run), the names in a course
\* folder are pairwise distinct, and each file carries the first suffix that
\* was free: its name is <stem>_<j>.<ext> (or its own name, j = 0) and all
\* names with a smaller suffix are taken in the folder.
C4_FirstFreeSuffix ==
    /\ \A f \in ArchFiles : place[f] = "archive" => InSnapshot(f)
    /\ \A d \in SnapDays : \A e \in snaps[d].files :
           LET names == names_in(snaps[d], e.course)
               own == ArchFile(e.src).name
               earlier == names_in([snaps[d] EXCEPT !.files = {}], e.course)
           IN /\ \A x \in snaps[d].files :
                     (x.course = e.course /\ x.name = e.name) => x.src = e.src
              /\ e.name \notin earlier
              /\ \E j \in 0..(Cardinality(names) - 1) :
                     /\ e.name = Suffixed(own, j)
                     /\ \A i \in 0..(j - 1) : Suffixed(own, i) \in names

\* both files named report.docx and report_1.docx are in the snapshot of one
\* day, the second report.docx under the name report_2.docx
C4_Witness ==
    \E d \in SnapDays :
        /\ \A f \in ArchFiles : \E e \in snaps[d].files : e.src = f
        /\ \E e \in snaps[d].files : e.src = 2 /\ e.name = Suffixed(ReportName, 2)

ConflictEntries(f) ==
    {k \in DOMAIN result.failed_files :
         result.failed_files[k] = [file |-> f, cause |-> "Too many filename conflicts"]}

\* C5: a file whose name resolution needed more than 100 attempts fails:
\* failed_files holds it exactly once with the name-conflict cause, it is not
\* in successful_files and it is still at its original path.
C5_ExhaustedFileFailsOnce ==
    \A k \in DOMAIN done :
        done[k].counter > MaxNameAttempts =>
            /\ Cardinality(ConflictEntries(done[k].file)) = 1
            /\ \A i \in DOMAIN result.successful_files :
                   result.successful_files[i] # done[k].file
            /\ place[done[k].file] = "orig"

\* C6: once the oracle has answered "cancel" for the file at position i, no
\* later position of the batch is prompted for, moved or trashed, the file at
\* position i is at its original path, and every file moved or trashed before
\* is at its destination.
C6_CancelStopsBatch ==
    \A k \in DOMAIN prompts :
        prompts[k].answer = "cancel" =>
            /\ \A j \in DOMAIN prompts : prompts[j].pos <= prompts[k].pos
            /\ \A j \in DOMAIN done : Moved(done[j]) => done[j].pos < prompts[k].pos
            /\ place[queue[prompts[k].pos]] = "orig"
            /\ \A j \in DOMAIN done :
                   /\ done[j].effect = "moved" =>
                          place[done[j].file] = "archive" /\ InSnapshot(done[j].file)
                   /\ done[j].effect = "trashed" => place[done[j].file] = "trash"

\* the oracle cancels at the second file of a batch whose first file was
\* moved or trashed
C6_Witness ==
    /\ Len(queue) = 2
    /\ \E k \in DOMAIN prompts : prompts[k].answer = "cancel" /\ prompts[k].pos = 2
    /\ \E j \in DOMAIN done : Moved(done[j])
    /\ pc = "idle"

\* C7: a clean_files call with safe_mode or dry_run set returns without a
\* change to the input files or to any snapshot, and without a call of the
\* decision oracle.
C7_PreviewChangesNothing ==
    [][(calls' = calls + 1 /\ (last_call'.dry_run \/ last_call'.safe_mode)) =>
           /\ place' = place
           /\ snaps' = snaps
           /\ prompts' = <<>>
           /\ pc' = "idle"]_vars

\* a dry run in archive mode has counted the files of a non-empty batch
C7_Witness ==
    /\ last_call.op = "clean_files"
    /\ last_call.dry_run /\ ~last_call.safe_mode
    /\ last_call.action = "Archive"
    /\ result.files_processed = 2
    /\ pc = "idle"

\* C8: between archive batches that all completed, the manifest of a day with
\* archived files holds a record for every file in the snapshot, and
\* total_files is the number of those files.
C8_ManifestHoldsDayRecords ==
    \A d \in SnapDays :
        (pc = "idle" /\ ~snaps[d].aborted /\ snaps[d].files # {}) =>
            /\ snaps[d].manifest # None
            /\ snaps[d].manifest[1].total_files = Cardinality(snaps[d].files) + snaps[d].filler
            /\ snaps[d].manifest[1].earlier = snaps[d].filler
            /\ \A e \in snaps[d].files :
                   \E k \in DOMAIN snaps[d].manifest[1].files :
                       snaps[d].manifest[1].files[k].original_path = e.src

----------------------------------------------------------------------------
(* SpecLifecycle: check_archive_reminders and clean_old_archives over the
   snapshots that archive runs left *)

\* the last day the calendar reaches
MaxDay == 32
\* the day before the oldest snapshot becomes due
LifeStart == ReminderDays - 1

\* the file an archive run of day d moved
file_of_day(d) == (d % Cardinality(ArchFiles)) + 1

\* the snapshot of day d as a completed archive batch <<file_of_day(d)>> of
\* that day leaves it
ArchivedSnapshot(d) ==
    LET f == file_of_day(d)
    IN [exists |-> TRUE, filler |-> 0, courses |-> {detect_course(f)},
        files |-> {[course |-> detect_course(f), name |-> ArchFile(f).name, src |-> f]},
        manifest |-> Some([total_files |-> 1, earlier |-> 0,
                           files |-> <<[original_path |-> f, course |-> detect_course(f),
                                        archived_path |-> ArchFile(f).name]>>]),
        reminder |-> Some(d + ReminderDays), keep |-> FALSE, aborted |-> FALSE]

InitLifecycle ==
    /\ protected_folders = ArchiveConfig
    /\ ExamIdle
    /\ lookup = None
    /\ ScanIdle
    /\ calls = 0
    /\ today = LifeStart
    /\ snaps \in [SnapDays -> {NoSnapshot} \cup {ArchivedSnapshot(d) : d \in SnapDays}]
    /\ \A d \in SnapDays : snaps[d] \in {NoSnapshot, ArchivedSnapshot(d)}
    /\ place = [f \in ArchFiles |->
                   IF \E d \in SnapDays : snaps[d].exists /\ file_of_day(d) = f
                   THEN "archive" ELSE "orig"]
    /\ pc = "idle"
    /\ queue = <<>>
    /\ pos = 1
    /\ result = EmptyResult
    /\ archive_info = <<>>
    /\ batch_day = 0
    /\ prompts = <<>>
    /\ done = <<>>
    /\ last_call = NoCall

\* midnight passes
DayPasses ==
    /\ today < MaxDay
    /\ today' = today + 1
    /\ UNCHANGED <<exam_manager, protected_folders, protectVars, scanVars, calls, fsVars, batchVars>>

\* the snapshot directories that hold .keep_forever
Kept == {d \in SnapDays : snaps[d].exists /\ snaps[d].keep}

\* the snapshot directories whose .reminder_date lies in the future
NotDue ==
    {d \in SnapDays : snaps[d].exists /\ snaps[d].reminder # None
                         /\ snaps[d].reminder[1] > today}

\* the snapshot directories under the archive root
Existing == {d \in SnapDays : snaps[d].exists}

\* fs::remove_dir_all of the snapshot of day d
remove_dir_all(st, d) ==
    [st EXCEPT !.snaps[d] = NoSnapshot,
               !.place = [f \in ArchFiles |->
                             IF \E e \in st.snaps[d].files : e.src = f
                             THEN "deleted" ELSE st.place[f]]]

\* the length of a marker file of a snapshot, if it is there
MarkerLen(present) == IF present THEN 32 ELSE 0

\* the sum of the top-level files of a snapshot directory
markers_size(snap) ==
    MarkerLen(snap.manifest # None) + MarkerLen(snap.reminder # None) + MarkerLen(snap.keep)

\* the number of files in the course folders of a snapshot
archived_count(snap) == Cardinality(snap.files) + snap.filler

\* a dir_size that counts an unreadable sub-directory as zero
dir_size_lenient(snap, fault) ==
    [err |-> FALSE,
     total |-> markers_size(snap)
                 + (IF fault \in {"unreadable_file", "unreadable_dir"} THEN 0
                    ELSE archived_count(snap) * size_of(ContentA))]

\* ArchiveSystem::dir_size of a snapshot directory. fault "unreadable_file":
\* fs::metadata fails for the archived files, which then count as 0;
\* "unreadable_dir": fs::read_dir of the course folders fails, and the `?`
\* returns the Err
dir_size(snap, fault) ==
    IF fault = "unreadable_dir" /\ snap.courses # {}
    THEN [err |-> TRUE, total |-> 0]
    ELSE [err |-> FALSE,
          total |-> markers_size(snap)
                      + (IF fault = "unreadable_file" THEN 0
                         ELSE archived_count(snap) * size_of(ContentA))]

\* check_archive_reminders, the body of the for loop (lines 598-653) for the
\* snapshot of day d: answer is the choice of the Select prompt, fault the
\* file-system call that fails for this snapshot, if one does
remind_one(st, d, answer, fault) ==
    IF ~st.snaps[d].exists \/ today - d < ReminderDays THEN st
    ELSE LET pushed == [st EXCEPT !.returned = Append(@, d)]
             archive_size == dir_size(st.snaps[d], fault)
             asked == [pushed EXCEPT !.prompts =
                          Append(@, [pos |-> d, kind |-> "reminder", answer |-> answer,
                                     size |-> archive_size.total])]
         IN IF archive_size.err THEN [pushed EXCEPT !.outcome = "error"]
            ELSE IF answer = "clean"
            THEN IF fault = "remove_dir_all" THEN asked ELSE remove_dir_all(asked, d)
            ELSE IF fault = "write" THEN [asked EXCEPT !.outcome = "error"]
            ELSE IF answer = "snooze"
            THEN [asked EXCEPT !.snaps[d].reminder = Some(today + SnoozeDays)]
            ELSE [asked EXCEPT !.snaps[d].keep = TRUE]

\* the for loop over list_archives(), oldest first; an Err ends it
RECURSIVE remind_from(_, _, _, _)
remind_from(st, d, answers, faults) ==
    IF d > MaxSnapDay \/ st.outcome = "error" THEN st
    ELSE remind_from(remind_one(st, d, answers[d], faults[d]), d + 1, answers, faults)

ReminderAnswers == {"clean", "snooze", "keep"}
\* the call that fails: none, read_dir of the archive root (list_archives),
\* or, for one snapshot, fs::metadata of its archived files, fs::read_dir of
\* its course folders, remove_dir_all or fs::write
LifeFaults ==
    {"none", "read_dir", "unreadable_file", "unreadable_dir", "remove_dir_all", "write"}

\* the snapshot dir_size is called on while it holds an unreadable entry, and
\* the kind of the entry: None if there is no such snapshot
Unreadable(fault, fault_day) ==
    IF /\ fault \in {"unreadable_file", "unreadable_dir"}
       /\ snaps[fault_day].exists
       /\ today - fault_day >= ReminderDays
    THEN Some([kind |-> fault, day |-> fault_day]) ELSE None

\* ArchiveSystem::check_archive_reminders; fault hits the snapshot of fault_day
CheckArchiveReminders(answers, fault, fault_day) ==
    /\ pc = "idle"
    /\ LET list_ok == fault # "read_dir"
           faults == [d \in SnapDays |-> IF d = fault_day THEN fault ELSE "none"]
           start == [snaps |-> snaps, place |-> place, returned |-> <<>>,
                     prompts |-> <<>>, outcome |-> "ok"]
           st == IF list_ok THEN remind_from(start, 0, answers, faults)
                 ELSE [start EXCEPT !.outcome = "error"]
       IN /\ snaps' = st.snaps
          /\ place' = st.place
          /\ prompts' = st.prompts
          /\ last_call' = [op |-> "check_archive_reminders", outcome |-> st.outcome,
                           returned |-> IF st.outcome = "ok" THEN st.returned ELSE <<>>,
                           kept |-> Kept, not_due |-> NotDue, day |-> today,
                           unreadable |-> Unreadable(fault, fault_day)]
    /\ UNCHANGED <<exam_manager, protected_folders, protectVars, scanVars, calls, today, pc, queue, pos,
                   result, archive_info, batch_day, done>>

\* a cutoff test that takes a snapshot dated exactly at the cutoff as old
is_old_inclusive(d, older_than_days, at_midnight) == d + older_than_days <= today

\* date < cutoff_date, with cutoff_date = Utc::now() - older_than_days: a
\* snapshot is dated at midnight, so one dated exactly older_than_days days
\* before today is older unless the call runs at midnight sharp
is_old(d, older_than_days, at_midnight) ==
    \/ d + older_than_days < today
    \/ d + older_than_days = today /\ ~at_midnight

\* clean_old_archives, the removal loop (lines 700-714)
RECURSIVE sweep_from(_, _, _, _)
sweep_from(st, d, old, remove_fails) ==
    IF d > MaxSnapDay THEN st
    ELSE IF d \notin old THEN sweep_from(st, d + 1, old, remove_fails)
    ELSE IF d \in remove_fails
    THEN sweep_from([st EXCEPT !.result.failed_files =
                         Append(@, [file |-> d, cause |-> "remove_dir_all"])],
                    d + 1, old, remove_fails)
    ELSE sweep_from([remove_dir_all(st, d) EXCEPT
                         !.result.files_processed = @ + 1,
                         !.result.successful_files = Append(@, d)],
                    d + 1, old, remove_fails)

\* ArchiveSystem::clean_old_archives
CleanOldArchives(older_than_days, skip_confirmation, confirm, at_midnight, list_ok, remove_fails) ==
    /\ pc = "idle"
    /\ LET old == {d \in SnapDays : snaps[d].exists /\ is_old(d, older_than_days, at_midnight)}
           start == [snaps |-> snaps, place |-> place, result |-> EmptyResult]
           should_clean == skip_confirmation \/ confirm
           st == IF list_ok /\ old # {} /\ should_clean
                 THEN sweep_from(start, 0, old, remove_fails) ELSE start
       IN /\ snaps' = st.snaps
          /\ place' = st.place
          /\ result' = st.result
          /\ prompts' = IF list_ok /\ old # {} /\ ~skip_confirmation
                        THEN <<[pos |-> 0, kind |-> "clean_old",
                                answer |-> IF confirm THEN "yes" ELSE "no"]>>
                        ELSE <<>>
          /\ last_call' = [op |-> "clean_old_archives",
                           outcome |-> IF list_ok THEN "ok" ELSE "error",
                           listed |-> IF list_ok THEN old ELSE {},
                           kept |-> Kept, existed |-> Existing, day |-> today,
                           older_than_days |-> older_than_days,
                           skip_confirmation |-> skip_confirmation,
                           at_midnight |-> at_midnight]
    /\ UNCHANGED <<exam_manager, protected_folders, protectVars, scanVars, calls, today, pc, queue, pos,
                   archive_info, batch_day, done>>

\* the --days argument tried
OlderThan == {ReminderDays}
\* <<skip_confirmation, answer of the Confirm prompt>>
Confirmations == {<<TRUE, FALSE>>, <<FALSE, TRUE>>, <<FALSE, FALSE>>}

NextLifecycle ==
    \/ DayPasses
    \/ \E answers \in [SnapDays -> ReminderAnswers], fault \in LifeFaults :
          \E fault_day \in IF fault \in {"none", "read_dir"} THEN {0} ELSE SnapDays :
            CheckArchiveReminders(answers, fault, fault_day)
    \/ \E older_than_days \in OlderThan, confirmation \in Confirmations,
          at_midnight \in BOOLEAN, list_ok \in BOOLEAN, remove_fails \in SUBSET SnapDays :
            CleanOldArchives(older_than_days, confirmation[1], confirmation[2], at_midnight,
                             list_ok, remove_fails)

SpecLifecycle == InitLifecycle /\ [][NextLifecycle]_vars

\* C1: a check_archive_reminders call neither returns nor prompts for a
\* snapshot that held the .keep_forever marker when the call started.
C1_KeptSnapshotNotReminded ==
    last_call.op = "check_archive_reminders" =>
        \A d \in last_call.kept :
            /\ \A k \in DOMAIN last_call.returned : last_call.returned[k] # d
            /\ \A k \in DOMAIN prompts : prompts[k].pos # d

----------------------------------------------------------------------------
(* SpecScore: calculate_confidence and categorize_file over their arguments *)

ScoreWords ==
    {{}, {"copy"}, {"notes"}, {"lecture"}, {"copy", "notes"}, {"book"},
     {"lecture", "homework"}, {"homework", "book"}}
ScoreExts == {"pdf", "png"}
ScoreDays == {-3, 10, 45, 61, 75, 91}
ScoreSizes == {0, 2097152, 157286400, 524288000}
ScoreDayThresholds == {30, DEFAULT_OLD_DAYS}
ScoreSizeThresholds == {1, DEFAULT_LARGE_MB}
ScoreGroupSizes == {0, 2}
FileCategory == {"Lecture", "Assignment", "Reference", "Old", "Large", "Other", "Duplicate"}

InitScore ==
    /\ protected_folders = <<>>
    /\ ExamIdle
    /\ lookup = None
    /\ tree = [i \in ScanFiles |-> Absent]
    /\ scan_in = [root |-> <<"home">>, exam |-> FALSE, env |-> NoFaults]
    /\ scan_out = None
    /\ score_in \in {ScoreArgs(w, e, d, sz, dt, lt, g, c, dup, exam) :
                       w \in ScoreWords, e \in ScoreExts, d \in ScoreDays, sz \in ScoreSizes,
                       dt \in ScoreDayThresholds, lt \in ScoreSizeThresholds,
                       g \in ScoreGroupSizes, c \in FileCategory, dup \in BOOLEAN,
                       exam \in BOOLEAN}
    /\ score_out = None
    /\ ArchiveIdle

\* one call of calculate_confidence with the arguments of score_in, and one of
\* categorize_file with the same file; record_category is the category scan
\* gives the file and dropped the verdict of its low-confidence filter
Score ==
    /\ score_out = None
    /\ score_out' =
         Some([confidence |->
                  calculate_confidence(score_in.words, score_in.ext, score_in.days_old,
                      score_in.size, score_in.days_threshold, score_in.large_threshold_mb,
                      score_in.group_size, score_in.category, score_in.dup, score_in.exam),
               category |->
                  categorize_file(score_in.words, score_in.days_old, score_in.size,
                                  score_in.large_threshold_mb),
               record_category |->
                  category_of(score_in.dup, score_in.words, score_in.days_old,
                              score_in.size, score_in.large_threshold_mb),
               reasons |->
                  reasons_of(score_in.words, score_in.ext, score_in.days_old, score_in.size,
                             score_in.days_threshold, score_in.large_threshold_mb,
                             score_in.group_size, score_in.dup, score_in.exam),
               dropped |->
                  low_confidence(score_in.exam,
                      calculate_confidence(score_in.words, score_in.ext, score_in.days_old,
                          score_in.size, score_in.days_threshold,
                          score_in.large_threshold_mb, score_in.group_size,
                          score_in.category, score_in.dup, score_in.exam))])
    /\ UNCHANGED <<exam_manager, protected_folders, protectVars, tree, scan_in, scan_out, score_in,
                   archiveVars>>

NextScore == Score

SpecScore == InitScore /\ [][NextScore]_vars

\* C11: every confidence calculate_confidence returns lies in [0.1, 1.0],
\* whatever the duplicate status, the file name, the age (negative ages
\* included), the size, the thresholds, the category and the scan mode.
C11_ConfidenceInRange ==
    score_out # None =>
        /\ score_out[1].confidence >= MinConfidence
        /\ score_out[1].confidence <= MaxConfidence

\* a file with a modification time in the future that no signal and no
\* category floor lifts is scored 0.1
C11_Witness ==
    /\ score_out # None
    /\ score_in.days_old < 0
    /\ score_out[1].confidence = MinConfidence

----------------------------------------------------------------------------
(* Properties of Scanner::scan, continued *)

\* the position of file i in the candidate list of the last scan
WalkPos(i) == CHOOSE k \in 1..Len(scan_out[1].candidates) : scan_out[1].candidates[k] = i

\* C12: the file list of a ScanResult is sorted non-increasing by confidence,
\* and records of equal confidence are in the order in which the directory
\* walk collected them.
C12_SortedStable ==
    scan_out # None =>
        LET files == scan_out[1].files
        IN \A k \in 1..Len(files) : \A l \in (k + 1)..Len(files) :
               /\ files[k].confidence >= files[l].confidence
               /\ files[k].confidence = files[l].confidence =>
                      WalkPos(files[k].path) < WalkPos(files[l].path)

\* a result in which the sort moved a record before an earlier collected one
\* and which holds two records of equal confidence
C12_Witness ==
    /\ scan_out # None
    /\ LET files == scan_out[1].files
       IN /\ \E k \in 1..Len(files) : \E l \in (k + 1)..Len(files) :
                 WalkPos(files[k].path) > WalkPos(files[l].path)
          /\ \E k \in 1..Len(files) : \E l \in (k + 1)..Len(files) :
                 files[k].confidence = files[l].confidence

\* the candidates of the last scan
Candidates == {scan_out[1].candidates[k] : k \in 1..Len(scan_out[1].candidates)}

\* candidate i is empty or no other candidate has its size
LoneSize(i) ==
    \/ size_of(tree[i]) = 0
    \/ \A j \in Candidates \ {i} : size_of(tree[j]) # size_of(tree[i])

\* C13: a candidate whose size is zero or unique among the candidates is not
\* handed to hash_file, has no digest in its record and is in no duplicate
\* group.
C13_LoneSizeNotHashed ==
    scan_out # None =>
        \A i \in Candidates :
            LoneSize(i) =>
                /\ i \notin scan_out[1].hashed
                /\ \A g \in scan_out[1].groups : i \notin g
                /\ \A r \in Records : r.path = i => r.hash = None

\* a scan with records for an empty candidate and for a non-empty candidate of
\* unique size
C13_Witness ==
    /\ scan_out # None
    /\ \E r \in Records : size_of(tree[r.path]) = 0
    /\ \E r \in Records : size_of(tree[r.path]) # 0 /\ LoneSize(r.path)

----------------------------------------------------------------------------
(* Properties of the archive lifecycle, continued *)

\* C14: a check_archive_reminders call neither returns nor prompts for a
\* snapshot whose .reminder_date was still in the future when the call
\* started, as it is for seven days after a snooze.
C14_SnoozedNotReminded ==
    last_call.op = "check_archive_reminders" =>
        \A d \in last_call.not_due :
            /\ \A k \in DOMAIN last_call.returned : last_call.returned[k] # d
            /\ \A k \in DOMAIN prompts : prompts[k].pos # d

\* C15: clean_old_archives neither lists nor deletes a snapshot that held the
\* .keep_forever marker when the call started.
C15_KeptSnapshotNotCleaned ==
    last_call.op = "clean_old_archives" =>
        \A d \in last_call.kept :
            /\ d \notin last_call.listed
            /\ snaps[d].exists

InResult(d, list) == \E k \in DOMAIN list : list[k] = d
FailedDays == {result.failed_files[k].file : k \in DOMAIN result.failed_files}

\* C16: a clean_old_archives call that lists the archives attempts to delete
\* exactly the snapshots dated strictly before now - days, and only when the
\* confirmation is skipped or granted; declined, it deletes nothing and
\* returns the empty result; a snapshot at or after the cutoff stays; a failed
\* deletion is in failed_files and the other old snapshots are still deleted.
C16_CleanOldExactlyOld ==
    (last_call.op = "clean_old_archives" /\ last_call.outcome = "ok") =>
        LET old == {d \in last_call.existed :
                       \/ d + last_call.older_than_days < last_call.day
                       \/ /\ d + last_call.older_than_days = last_call.day
                          /\ ~last_call.at_midnight}
            granted == \/ last_call.skip_confirmation
                       \/ \E k \in DOMAIN prompts : prompts[k].answer = "yes"
            attempted == {d \in SnapDays : InResult(d, result.successful_files)}
                           \cup FailedDays
        IN /\ attempted = IF granted THEN old ELSE {}
           /\ \A d \in last_call.existed \ old : snaps[d].exists
           /\ ~granted => result = EmptyResult
           /\ \A d \in last_call.existed :
                  snaps[d].exists <=> ~InResult(d, result.successful_files)
           /\ result.files_processed = Len(result.successful_files)
           /\ Len(result.successful_files) + Len(result.failed_files)
                  = Cardinality(attempted)

\* a call in which the deletion of one old snapshot failed and the other old
\* snapshot was deleted all the same
C16_Witness ==
    /\ last_call.op = "clean_old_archives"
    /\ result.failed_files # <<>>
    /\ result.successful_files # <<>>
    /\ result.failed_files[1].file < result.successful_files[1]

----------------------------------------------------------------------------
(* Properties of clean_files, continued *)

InLoop == pc \in {"archive", "recycle"} /\ pos <= Len(queue)

\* C17: no failure on one file ends a recycle or archive batch: an iteration
\* of the loop either goes on to the next file, with a file that failed in
\* failed_files, or ends the batch because the user cancelled.
C17_NoPerFileAbort ==
    [][InLoop =>
          \/ /\ pc' = "idle"
             /\ last_call'.outcome = "cancelled"
          \/ /\ pc' = pc
             /\ pos' = pos + 1
             /\ queue' = queue
             /\ done'[Len(done')].effect = "failed" =>
                    \E k \in DOMAIN result'.failed_files :
                        result'.failed_files[k].file = queue[pos]]_vars

\* C18: the snapshot directory is created lazily: a step creates a snapshot
\* directory, or writes its manifest or its .reminder_date, only in a batch
\* that has moved a file.
C18_SnapshotCreatedLazily ==
    [][\A d \in SnapDays :
          (\/ ~snaps[d].exists /\ snaps'[d].exists
           \/ snaps'[d].manifest # snaps[d].manifest
           \/ snaps'[d].reminder # snaps[d].reminder)
              => result'.successful_files # <<>>]_vars

Recorded(i) == \E k \in 1..Len(scan_out[1].files) : scan_out[1].files[k].path = i

\* C19: in normal mode every record of the result has confidence >= 0.4; in
\* exam mode every collected candidate that still exists when it is analysed
\* has a record, whatever its confidence.
C19_LowConfidenceFilter ==
    scan_out # None =>
        IF scan_in.exam
        THEN \A i \in Candidates \ scan_in.env.vanished : Recorded(i)
        ELSE \A k \in 1..Len(scan_out[1].files) :
                 scan_out[1].files[k].confidence >= LowConfidence

\* an exam-mode scan with a record at the screenshot cap of 0.4 and a
\* candidate that was gone when it came to be analysed
C19_Witness ==
    /\ scan_out # None
    /\ scan_in.exam
    /\ \E k \in 1..Len(scan_out[1].files) :
           scan_out[1].files[k].confidence = LowConfidence
    /\ \E i \in Candidates \cap scan_in.env.vanished : ~Recorded(i)

----------------------------------------------------------------------------
(* Properties of calculate_confidence, continued *)

\* the values of the signals that fire for the arguments of score_in, the
\* floor of the category, and the absolute floor
Fired ==
    LET a == score_in
    IN {MinConfidence}
         \cup (IF a.dup /\ a.group_size > 1 THEN {ExactDuplicateConfidence} ELSE {})
         \cup (IF \E pat \in DUPLICATE_PATTERNS : pat \in a.words
               THEN {DuplicateNameConfidence} ELSE {})
         \cup (IF a.days_old > VeryOldDays THEN {VeryOldConfidence}
               ELSE IF a.days_old > a.days_threshold
               THEN {SignalBase + Min((a.days_old - a.days_threshold) * 100, SignalBonusCap)}
               ELSE {})
         \cup (IF a.size > a.large_threshold_mb * 1048576
               THEN {SignalBase + Min((a.size * 3) \div 1048576, SignalBonusCap)}
               ELSE {})
         \cup (IF \E pat \in STUDY_PATTERNS : pat \in a.words
               THEN {StudyConfidence} ELSE {})
         \cup (CASE a.category \in {"Lecture", "Assignment", "Reference"}
                       -> {StudyCategoryFloor}
                 [] a.category = "Old" -> {OldCategoryFloor}
                 [] a.category = "Large" -> {LargeCategoryFloor}
                 [] a.category = "Other" -> {OtherCategoryFloor}
                 [] a.category = "Duplicate" -> {})

Capped == score_in.exam /\ score_in.ext \in {"png", "jpg", "jpeg"}

\* C20: when the exam-mode image cap does not apply, calculate_confidence
\* returns the greatest of 0.1, the values of the signals that fire and the
\* floor of the category: one of these values, and none of them exceeds it.
C20_MaximumOfSignals ==
    (score_out # None /\ ~Capped) =>
        /\ score_out[1].confidence \in Fired
        /\ \A v \in Fired : v <= score_out[1].confidence

\* a file whose name fires the duplicate-name and the study signal and whose
\* category has a floor: the result is the 0.85 of the strongest of the three
C20_Witness ==
    /\ score_out # None
    /\ ~Capped
    /\ {"copy", "notes"} \subseteq score_in.words
    /\ score_in.category = "Lecture"
    /\ Cardinality(Fired) >= 4
    /\ score_out[1].confidence = DuplicateNameConfidence

----------------------------------------------------------------------------
(* Properties of categorize_file *)

LectureWords == {"lecture", "slide", "presentation"}
AssignmentWords == {"assignment", "homework", "hw"}
ReferenceWords == {"textbook", "book", "reference"}

\* the category the precedence file name keyword (Lecture, Assignment,
\* Reference), age, size, Other gives the file of score_in
ByPrecedence(c) ==
    LET a == score_in
        lecture == a.words \cap LectureWords # {}
        assignment == a.words \cap AssignmentWords # {}
        reference == a.words \cap ReferenceWords # {}
        keyword == lecture \/ assignment \/ reference
        old == a.days_old > 60
        large == a.size > a.large_threshold_mb * 1048576
    IN /\ lecture => c = "Lecture"
       /\ (~lecture /\ assignment) => c = "Assignment"
       /\ (~lecture /\ ~assignment /\ reference) => c = "Reference"
       /\ (~keyword /\ old) => c = "Old"
       /\ (~keyword /\ ~old /\ large) => c = "Large"
       /\ (~keyword /\ ~old /\ ~large) => c = "Other"

\* a file scan found to be a duplicate is not empty and has a hash group of
\* two or more
DuplicateHasGroup == score_in.dup => (score_in.group_size > 1 /\ score_in.size > 0)

HasKeyword == score_in.words \cap (LectureWords \cup AssignmentWords \cup ReferenceWords) # {}

\* C21, as the spec states it: the category of a record follows the
\* precedence keyword, age, size, Other, and a file with a category keyword
\* in its name gets the category of the keyword whatever its duplicate status.
C21_CategoryByPrecedence ==
    (score_out # None /\ DuplicateHasGroup /\ (HasKeyword \/ ~score_in.dup))
        => ByPrecedence(score_out[1].record_category)

\* C21, amended: the category of a record of an exact duplicate is Duplicate;
\* the category of every other record follows the precedence keyword (Lecture,
\* then Assignment, then Reference), age, size, Other.
C21_CategoryByPrecedenceUnlessDuplicate ==
    (score_out # None /\ DuplicateHasGroup) =>
        IF score_in.dup THEN score_out[1].record_category = "Duplicate"
        ELSE ByPrecedence(score_out[1].record_category)

\* a file that is no duplicate, old and large, without a keyword in its name:
\* the age wins and it is Old
C21_Witness ==
    /\ score_out # None
    /\ ~score_in.dup
    /\ score_in.words = {}
    /\ score_in.days_old > 60
    /\ score_in.size > score_in.large_threshold_mb * 1048576
    /\ score_out[1].record_category = "Old"

----------------------------------------------------------------------------
(* Properties of clean_to_recycle_bin *)

\* the entry of the archive configuration with the longest folder that holds
\* the file is a Soft one
SoftProtected(f) ==
    \E i \in 1..Len(protected_folders) :
        /\ starts_with(arch_path(f), protected_folders[i].path)
        /\ protected_folders[i].protection_type = Soft
        /\ \A j \in 1..Len(protected_folders) :
               starts_with(arch_path(f), protected_folders[j].path)
                  => Len(protected_folders[j].path) <= Len(protected_folders[i].path)

DecisionRank(kind) == CASE kind = "cloud" -> 1 [] kind = "locked" -> 2 [] kind = "protected" -> 3
ProceedAnswers == {"delete", "retry"}

\* C22: in an iteration of the recycle loop the decisions are asked at most
\* once each in the order cloud, locked, protected, a cloud-synced file is
\* asked about first and only a Soft-protected file is asked the protected
\* question; the file goes to the trash only if every condition it meets was
\* asked and answered with proceed; after a skip answer nothing more is asked
\* and the file stays in place, out of successful_files and failed_files.
C22_RecycleDecisions ==
    [][(pc = "recycle" /\ pos <= Len(queue)) =>
          LET f == queue[pos]
              asked == SubSeq(prompts', Len(prompts) + 1, Len(prompts'))
          IN /\ \A a \in DOMAIN asked : asked[a].pos = pos
             /\ \A a \in DOMAIN asked : \A b \in DOMAIN asked :
                    a < b => DecisionRank(asked[a].kind) < DecisionRank(asked[b].kind)
             /\ (place[f] = "orig" /\ is_in_cloud_folder(arch_path(f)))
                    => (asked # <<>> /\ asked[1].kind = "cloud")
             /\ \A a \in DOMAIN asked : asked[a].kind = "protected" => SoftProtected(f)
             /\ place'[f] = "trash" /\ place[f] # "trash" =>
                    /\ \A a \in DOMAIN asked : asked[a].answer \in ProceedAnswers
                    /\ is_in_cloud_folder(arch_path(f))
                          => \E a \in DOMAIN asked : asked[a].kind = "cloud"
                    /\ SoftProtected(f)
                          => \E a \in DOMAIN asked : asked[a].kind = "protected"
             /\ \A a \in DOMAIN asked : asked[a].answer = "skip" =>
                    /\ a = Len(asked)
                    /\ place' = place
                    /\ result' = result
                    /\ pc' = pc /\ pos' = pos + 1]_vars

\* a cloud-synced, locked and Soft-protected file that went to the trash after
\* three proceed answers, in a batch in which another file was skipped on a
\* skip answer
C22_Witness ==
    /\ last_call.op = "clean_files"
    /\ last_call.action = "RecycleBin"
    /\ \E k \in DOMAIN done :
          /\ done[k].effect = "trashed"
          /\ Cardinality({a \in DOMAIN prompts : prompts[a].pos = done[k].pos}) = 3
    /\ \E k \in DOMAIN done :
          /\ done[k].effect = "skipped"
          /\ \E a \in DOMAIN prompts :
                prompts[a].pos = done[k].pos /\ prompts[a].answer = "skip"

----------------------------------------------------------------------------
(* Properties of handle_locked_file *)

----------------------------------------------------------------------------
(* Properties of dir_size *)

\* C24: an unreadable file or an unreadable sub-directory of a snapshot does
\* not make dir_size fail, so it does not abort check_archive_reminders: the
\* call ends without an error, and the size it shows for that snapshot is the
\* sum of the readable rest, here the files at the top of the snapshot.
C24_DirSizeNeverFails ==
    (/\ last_call.op = "check_archive_reminders"
     /\ last_call.unreadable # None) =>
        /\ last_call.outcome = "ok"
        /\ \A k \in DOMAIN prompts :
              LET d == prompts[k].pos
              IN (d = last_call.unreadable[1].day /\ snaps[d].exists) =>
                    prompts[k].size = MarkerLen(snaps[d].manifest # None)
                                        + MarkerLen(snaps[d].reminder # None)
                                        + MarkerLen(d \in last_call.kept)

----------------------------------------------------------------------------
(* Properties of the CleanupResult *)

Occurrences(f, list) == Cardinality({k \in DOMAIN list : list[k] = f})
FailedOccurrences(f) ==
    Cardinality({k \in DOMAIN result.failed_files : result.failed_files[k].file = f})

\* C25: in the CleanupResult of a recycle or archive batch of distinct paths
\* no path is in both successful_files and failed_files, no path is in
\* either list more than once, and files_processed is the length of
\* successful_files.
C25_ResultListsDisjoint ==
    (/\ last_call.op = "clean_files"
     /\ ~(last_call.dry_run \/ last_call.safe_mode)
     /\ \A f \in ArchFiles : Occurrences(f, queue) <= 1) =>
        /\ \A f \in ArchFiles :
              /\ ~(Occurrences(f, result.successful_files) > 0 /\ FailedOccurrences(f) > 0)
              /\ Occurrences(f, result.successful_files) <= 1
              /\ FailedOccurrences(f) <= 1
        /\ result.files_processed = Len(result.successful_files)

----------------------------------------------------------------------------
(* SpecCommands: the `protect` commands (main.rs, handle_protect) from an
   empty protected-folder list *)

\* an add that refuses only a path that is itself in the list
already_listed(folders, path) == \E i \in 1..Len(folders) : folders[i].path = path

\* handle_protect, Add: config.is_protected(&abs_path).is_some()
already_protected(folders, path) == is_protected(folders, path) # None

\* Vec::retain(|p| p.path != abs_path)
RECURSIVE retain_not(_, _)
retain_not(folders, path) ==
    IF folders = <<>> THEN <<>>
    ELSE LET rest == retain_not(SubSeq(folders, 1, Len(folders) - 1), path)
         IN IF folders[Len(folders)].path = path THEN rest
            ELSE Append(rest, folders[Len(folders)])

InitCommands ==
    /\ protected_folders = <<>>
    /\ ExamIdle
    /\ lookup = None
    /\ ScanIdle
    /\ ArchiveIdle

\* `protect add <path> --protection <type>`; the list is the saved one, which
\* a failing config.save() leaves as it was
ProtectAdd(path, protection_type, save_ok) ==
    /\ protected_folders' =
          IF already_protected(protected_folders, path) \/ ~save_ok THEN protected_folders
          ELSE Append(protected_folders, ProtectedFolder(path, protection_type))
    /\ UNCHANGED <<exam_manager, protectVars, scanVars, archiveVars>>

\* `protect remove <path>`
ProtectRemove(path, save_ok) ==
    /\ protected_folders' =
          IF save_ok THEN retain_not(protected_folders, path) ELSE protected_folders
    /\ UNCHANGED <<exam_manager, protectVars, scanVars, archiveVars>>

\* `protect clear`, with the answer of the Confirm prompt
ProtectClear(confirm, save_ok) ==
    /\ protected_folders' =
          IF protected_folders # <<>> /\ confirm /\ save_ok THEN <<>> ELSE protected_folders
    /\ UNCHANGED <<exam_manager, protectVars, scanVars, archiveVars>>

NextCommands ==
    \/ \E path \in ProtectablePaths, t \in ProtectionType, save_ok \in BOOLEAN :
          ProtectAdd(path, t, save_ok)
    \/ \E path \in ProtectablePaths, save_ok \in BOOLEAN : ProtectRemove(path, save_ok)
    \/ \E confirm \in BOOLEAN, save_ok \in BOOLEAN : ProtectClear(confirm, save_ok)
    \/ \E path \in QueryPaths : Lookup(path)

SpecCommands == InitCommands /\ [][NextCommands]_vars

\* C26: in a list the protect commands built from the empty list no entry
\* lies under or equals an entry that precedes it, and is_protected returns
\* for every path the entry with the longest folder among those that hold the
\* path (None when there is none).
C26_CommandsKeepLongestFirst ==
    /\ \A i \in 1..Len(protected_folders) : \A j \in (i + 1)..Len(protected_folders) :
          ~starts_with(protected_folders[j].path, protected_folders[i].path)
    /\ \A path \in QueryPaths :
          LET m == Matching(protected_folders, path)
              r == is_protected(protected_folders, path)
          IN IF m = {} THEN r = None
             ELSE /\ r # None
                  /\ \E i \in m : /\ r[1] = protected_folders[i]
                                  /\ \A j \in m : Len(protected_folders[j].path)
                                                    <= Len(protected_folders[i].path)

\* a list with an entry and, after it, an entry for a folder above it, in
\* which a path under both was looked up
C26_Witness ==
    /\ \E i \in 1..Len(protected_folders) : \E j \in (i + 1)..Len(protected_folders) :
          /\ starts_with(protected_folders[i].path, protected_folders[j].path)
          /\ protected_folders[i].protection_type # protected_folders[j].protection_type
    /\ lookup # None
    /\ Cardinality(Matching(protected_folders, lookup[1].path)) = 2

----------------------------------------------------------------------------
(* Properties of the low-confidence filter *)

\* the arguments are such as scan passes them: the category is the one scan
\* gave the file, and a duplicate has a hash group of more than one member
AsScanCalls ==
    /\ score_in.category = score_out[1].record_category
    /\ DuplicateHasGroup

\* C27: in normal mode calculate_confidence returns no value below 0.4,
\* whatever the name, age and size of the file, its duplicate status and the
\* thresholds, and the low-confidence filter of scan does not drop the file.
C27_NormalNeverBelowLowInScan ==
    (score_out # None /\ ~score_in.exam /\ AsScanCalls) =>
        /\ score_out[1].confidence >= LowConfidence
        /\ ~score_out[1].dropped

\* a file no signal fires for, scored in normal mode as scan scores it: it
\* gets the 0.4 of the Other floor and passes the filter
C27_Witness ==
    /\ score_out # None
    /\ ~score_in.exam
    /\ AsScanCalls
    /\ score_in.category = "Other"
    /\ score_out[1].confidence = LowConfidence
    /\ ~score_out[1].dropped

----------------------------------------------------------------------------
(* Properties of the exam-mode image cap *)

ImageExtensions == {"png", "jpg", "jpeg"}

\* C28: in exam mode a candidate with the extension png, jpg or jpeg gets the
\* confidence 0.4 exactly, whatever signals fired and whatever its category,
\* and the last clause of its reason is the screenshot clause.
C28_ExamImageExactlyCap ==
    (/\ score_out # None
     /\ score_in.exam
     /\ score_in.ext \in ImageExtensions
     /\ AsScanCalls) =>
        /\ score_out[1].confidence = ScreenshotCap
        /\ score_out[1].reasons # <<>>
        /\ score_out[1].reasons[Len(score_out[1].reasons)] = "Screenshot (lower confidence)"

\* an exam-mode screenshot that is an exact duplicate, over 90 days old and
\* large: three signals fired, and the confidence is 0.4
C28_Witness ==
    /\ score_out # None
    /\ score_in.exam
    /\ score_in.ext = "png"
    /\ AsScanCalls
    /\ score_in.dup
    /\ score_in.days_old > VeryOldDays
    /\ Len(score_out[1].reasons) >= 4
    /\ score_out[1].confidence = ScreenshotCap

----------------------------------------------------------------------------
(* SpecScanPair: two scans of one tree that differ in days_threshold only *)

\* the pairs of age thresholds the two scans are given
ThresholdPairs == {<<7, DEFAULT_OLD_DAYS>>, <<7, 80>>, <<DEFAULT_OLD_DAYS, 80>>}

InitScanPair ==
    /\ protected_folders \in ScanConfigs
    /\ ExamIdle
    /\ tree \in Trees
    /\ scan_in \in [root : ScanRoots, exam : BOOLEAN, env : ScanEnvs,
                    days_thresholds : ThresholdPairs]
    /\ scan_out = None
    /\ ScoreIdle
    /\ lookup = None
    /\ ArchiveIdle

\* Scanner::scan called twice, on the same tree in the same environment, with
\* the first and with the second threshold
ScanPair ==
    /\ scan_out = None
    /\ scan_out' =
          Some([first |-> scan(tree, protected_folders, scan_in.root, scan_in.exam,
                               scan_in.days_thresholds[1], DEFAULT_LARGE_MB,
                               scan_in.env.nometa, scan_in.env.unreadable,
                               scan_in.env.vanished),
                second |-> scan(tree, protected_folders, scan_in.root, scan_in.exam,
                                scan_in.days_thresholds[2], DEFAULT_LARGE_MB,
                                scan_in.env.nometa, scan_in.env.unreadable,
                                scan_in.env.vanished)])
    /\ UNCHANGED <<exam_manager, protected_folders, tree, scan_in, score_in, score_out, protectVars,
                   archiveVars>>

NextScanPair == ScanPair

SpecScanPair == InitScanPair /\ [][NextScanPair]_vars

\* every record of result a has a record of the same file and category in b
SameCategories(a, b) ==
    \A k \in 1..Len(a.files) : \E l \in 1..Len(b.files) :
        /\ b.files[l].path = a.files[k].path
        /\ b.files[l].category = a.files[k].category

----------------------------------------------------------------------------
(* SpecExam: the exam commands, one process per command *)

\* the files a scan of the exam folder reports: path, age and scanner category
ExamFiles ==
    { [path |-> <<"home", "lecture1.pdf">>, days_old |-> 2, category |-> "Lecture"],
      [path |-> <<"home", "textbook.pdf">>, days_old |-> 5, category |-> "Reference"],
      [path |-> <<"home", "video.mp4">>, days_old |-> 30, category |-> "LargeFile"] }

ExamPaths == {f.path : f \in ExamFiles}

PostExamChoices == {"QuickClean", "SelectiveClean", "SmartClean"}

\* the exam_tracking a config file can hold
ExamConfigs ==
    {None} \cup {Some(s) : s \in [active : BOOLEAN, tracked_files : SUBSET ExamPaths]}

\* ExamTracker::new: active, nothing tracked
new_tracker == [active |-> TRUE, tracked_files |-> {}]

\* From<ExamTracker> for ExamTrackingState: the paths only, the categories are lost
into(tracker) ==
    [active |-> tracker.active, tracked_files |-> {e.path : e \in tracker.tracked_files}]

\* ExamManager::load_from_config: only an active tracking is loaded, every file as Other
load_from_config(config) ==
    IF config # None /\ config[1].active
    THEN Some([active |-> config[1].active,
               tracked_files |-> {[path |-> p, category |-> "Other"] : p \in config[1].tracked_files}])
    ELSE None

\* ExamManager::is_active
is_active(tracker) == tracker # None /\ tracker[1].active

\* handle_scan, lines 224-229: the scanner category as an exam category
exam_category(category) ==
    IF category \in {"Lecture", "Assignment", "Reference"} THEN category ELSE "Other"

\* handle_scan, lines 221-239, with track_file_if_active and add_file: the recent
\* files of the scan are inserted, each replacing an older entry of its path
track_found(tracker, found) ==
    IF ~is_active(tracker) THEN tracker
    ELSE LET recent == {f \in found : f.days_old <= 7}
         IN Some([tracker[1] EXCEPT !.tracked_files =
                    {e \in @ : e.path \notin {f.path : f \in recent}}
                    \cup {[path |-> f.path, category |-> exam_category(f.category)] : f \in recent}])

\* ExamTracker::get_files_for_cleanup
get_files_for_cleanup(tracker, choice) ==
    IF choice = "SmartClean"
    THEN {e.path : e \in {x \in tracker.tracked_files : x.category # "Reference"}}
    ELSE {e.path : e \in tracker.tracked_files}

\* an end_exam that leaves the ended tracker in the manager
tracker_after_end_kept(tracker) == Some(tracker)

\* ExamManager::end_exam, line 504: self.tracker = None
tracker_after_end(tracker) == None

\* the command returns to main, which returns
Return(config, tracker) ==
    exam_manager' = [exam_manager EXCEPT !.config = config, !.tracker = tracker, !.pc = "done"]

InitExam ==
    /\ protected_folders = <<>>
    /\ lookup = None
    /\ ScanIdle
    /\ ArchiveIdle
    /\ exam_manager \in {[NoExam EXCEPT !.config = c] : c \in ExamConfigs}

\* main, lines 120-121: a command starts with a manager loaded from the config file
LoadFromConfig ==
    /\ exam_manager.pc = "shell"
    /\ exam_manager' = [exam_manager EXCEPT !.tracker = load_from_config(exam_manager.config),
                                            !.pc = "loaded"]
    /\ UNCHANGED <<protected_folders, protectVars, scanVars, archiveVars>>

\* handle_scan, lines 199-239: auto_start says that monitoring is enabled, the scan
\* found enough recent study files and the user chose to start tracking; the
\* tracker is saved when it starts, the files tracked afterwards are not
HandleScan(found, auto_start, save_ok) ==
    /\ exam_manager.pc = "loaded"
    /\ LET starts == ~is_active(exam_manager.tracker) /\ exam_manager.tracker = None /\ auto_start
           tracker == IF starts THEN Some(new_tracker) ELSE exam_manager.tracker
       IN IF starts /\ ~save_ok
          THEN Return(exam_manager.config, tracker)
          ELSE Return(IF starts THEN Some(into(new_tracker)) ELSE exam_manager.config,
                      track_found(tracker, found))
    /\ UNCHANGED <<protected_folders, protectVars, scanVars, archiveVars>>

\* handle_exam, On: ExamManager::start_manual
ExamOn(safe_mode, save_ok) ==
    /\ exam_manager.pc = "loaded"
    /\ LET has_active_exam ==
               \/ is_active(exam_manager.tracker)
               \/ exam_manager.config # None /\ exam_manager.config[1].active
       IN IF safe_mode \/ has_active_exam
          THEN Return(exam_manager.config, exam_manager.tracker)
          ELSE Return(IF save_ok THEN Some(into(new_tracker)) ELSE exam_manager.config,
                      Some(new_tracker))
    /\ UNCHANGED <<protected_folders, protectVars, scanVars, archiveVars>>

\* handle_exam, Off: ExamManager::stop with Config::deactivate_exam_tracking
ExamOff(safe_mode, save_ok) ==
    /\ exam_manager.pc = "loaded"
    /\ IF safe_mode
       THEN Return(exam_manager.config, exam_manager.tracker)
       ELSE Return(IF exam_manager.config # None /\ exam_manager.config[1].active /\ save_ok
                   THEN Some([exam_manager.config[1] EXCEPT !.active = FALSE])
                   ELSE exam_manager.config,
                   None)
    /\ UNCHANGED <<protected_folders, protectVars, scanVars, archiveVars>>

\* handle_exam, End, line 720: ExamManager::end_exam with show_post_exam_options
ExamEnd(safe_mode, choice, confirm, save_ok) ==
    /\ exam_manager.pc = "loaded"
    /\ IF safe_mode \/ exam_manager.tracker = None \/ ~exam_manager.tracker[1].active
       THEN Return(exam_manager.config, exam_manager.tracker)
       ELSE LET ended == [exam_manager.tracker[1] EXCEPT !.active = FALSE]
            IN IF ~confirm \/ ~save_ok
               THEN Return(exam_manager.config, Some(ended))
               ELSE exam_manager' =
                        [exam_manager EXCEPT !.config = Some(into(ended)),
                                             !.tracker = tracker_after_end(ended),
                                             !.pc = "chosen",
                                             !.choice = Some(choice),
                                             !.selected = Some(get_files_for_cleanup(ended, choice))]
    /\ UNCHANGED <<protected_folders, protectVars, scanVars, archiveVars>>

\* handle_exam, End, lines 729-775: the files of the manager's tracker go to clean_files
CleanTracked ==
    /\ exam_manager.pc = "chosen"
    /\ LET files_to_clean == IF exam_manager.tracker = None THEN {}
                             ELSE get_files_for_cleanup(exam_manager.tracker[1],
                                                        exam_manager.choice[1])
       IN exam_manager' = [exam_manager EXCEPT
                               !.cleaned = IF files_to_clean # {} THEN Some(files_to_clean) ELSE @,
                               !.pc = "done"]
    /\ UNCHANGED <<protected_folders, protectVars, scanVars, archiveVars>>

\* the process ends: only the config file is left
Exit ==
    /\ exam_manager.pc = "done"
    /\ exam_manager' = [NoExam EXCEPT !.config = exam_manager.config]
    /\ UNCHANGED <<protected_folders, protectVars, scanVars, archiveVars>>

NextExam ==
    \/ LoadFromConfig
    \/ \E found \in SUBSET ExamFiles, auto_start \in BOOLEAN, save_ok \in BOOLEAN :
           HandleScan(found, auto_start, save_ok)
    \/ \E safe_mode \in BOOLEAN, save_ok \in BOOLEAN : ExamOn(safe_mode, save_ok)
    \/ \E safe_mode \in BOOLEAN, save_ok \in BOOLEAN : ExamOff(safe_mode, save_ok)
    \/ \E safe_mode \in BOOLEAN, choice \in PostExamChoices, confirm \in BOOLEAN, save_ok \in BOOLEAN :
           ExamEnd(safe_mode, choice, confirm, save_ok)
    \/ CleanTracked
    \/ Exit

\* a command that has started runs to its end: handle_exam goes on after end_exam
\* returns, and main returns
SpecExam == InitExam /\ [][NextExam]_vars /\ WF_vars(CleanTracked) /\ WF_vars(Exit)

----------------------------------------------------------------------------
(* Properties of `exam end` *)

\* end_exam has returned the confirmed choice for a tracker whose selection is s
ChoiceConfirmed(s) ==
    /\ exam_manager.pc = "chosen"
    /\ exam_manager.selected = Some(s)

C30_ConfirmedState ==
    \E s \in (SUBSET ExamPaths) \ {{}} : ChoiceConfirmed(s)

====
